---- MODULE Spec2Model ----
(***************************************************************************)
(* A model of the garbage-collected heap of icicle-core                    *)
(* (src/icicle-core/src/heap/mod.rs): the heap's block list, mutator       *)
(* registry and pinned-root map, the mutators with their allocator block   *)
(* and their two root stacks, and the roots.  Block, the roots and the     *)
(* pre-allocated objects live in block.rs, refs.rs and pre_alloc.rs, which *)
(* are not part of the sources at hand: they are modelled from the         *)
(* specification (spec.md 4.1, 4.3, 4.5).  The collection cycle exists     *)
(* only as a design (spec.md 4.4); the collector's steps are modelled from *)
(* it, while safe_point is modelled from its code.                         *)
(***************************************************************************)
EXTENDS Integers, Sequences, FiniteSets, TLC

(***************************************************************************)
(* Bounds of the model.                                                    *)
(***************************************************************************)
\* Number of addresses at which a Mutator box can live.
MaxMutators == 2
\* Number of blocks ever created on the heap.
MaxBlocks == 3
\* Nesting depth of with_stack_roots / with_pinned_stack_root / safe_point_with.
MaxDepth == 2
\* Largest N of with_stack_roots::<N>.
MaxBatch == 1
\* Number of mutators where the root stacks are explored.
MaxRootMutators == 1
\* Number of PinnedRoot values ever constructed or cloned.
MaxPinOps == 3
\* Number of collection cycles requested.
MaxCycles == 1
\* Number of objects allocated where the collector runs.
MaxObjects == 3
\* Number of PinnedRoot values constructed where the collector runs.
MaxGcPinOps == 2
\* Number of threads that call into one heap at the same time.
MaxThreads == 2
\* Number of calls each of these threads makes.
MaxCalls == 3
\* Length of the list of results f gives to retry_on_eintr before it repeats
\* the last of them.
MaxResults == 3
\* Number of calls of f that are counted.
MaxFCalls == 5
\* Length of the input of the Lexer, in characters.
MaxInput == 4
\* Number of calls of Lexer::next that are made after the first None.
MaxNones == 2
\* Number of threads that use one State at the same time.
MaxCallers == 2
\* Number of calls of State methods each of these threads makes.
MaxDirCalls == 3
\* Number of system calls that fail for a reason of their own.
MaxFaults == 1
\* How far direct calls of retain_pinned_root and release_pinned_root move the
\* count of an object away from none and from the largest count.
MaxCount == 3

(***************************************************************************)
(* Program constants.  block.rs is not at hand; the values are scaled down *)
(* so that a block holds two aligned objects.                              *)
(***************************************************************************)
DEFAULT_BLOCK_SIZE == 4
OBJECT_ALIGN == 2

(***************************************************************************)
(* u32 and u64.  TLC's integers have 32 bits, fewer than the program's, so *)
(* a u32 is written as two and a u64 as four 16-bit limbs, the least       *)
(* significant first, and one is added and subtracted with carry.          *)
(***************************************************************************)
LIMB == 65536

\* n as u32 and as u64, for n below 2^31.
u32(n) == <<n % LIMB, n \div LIMB>>
u64(n) == <<n % LIMB, n \div LIMB, 0, 0>>

\* u32::MAX and u64::MAX.
U32_MAX == <<LIMB - 1, LIMB - 1>>
U64_MAX == <<LIMB - 1, LIMB - 1, LIMB - 1, LIMB - 1>>

\* w.wrapping_add(1): the carry runs up the limbs; past the last one it is lost.
wrapping_add(w) ==
    LET RECURSIVE Carry(_, _)
        Carry(v, i) == IF i > Len(v) THEN v
                       ELSE IF v[i] < LIMB - 1 THEN [v EXCEPT ![i] = @ + 1]
                       ELSE Carry([v EXCEPT ![i] = 0], i + 1)
    IN Carry(w, 1)

\* w - 1, for w > 0.
minus_one(w) ==
    LET RECURSIVE Borrow(_, _)
        Borrow(v, i) == IF i > Len(v) THEN v
                        ELSE IF v[i] > 0 THEN [v EXCEPT ![i] = @ - 1]
                        ELSE Borrow([v EXCEPT ![i] = LIMB - 1], i + 1)
    IN Borrow(w, 1)

\* NonZeroU64::MAX, the largest pinned root count, and NonZeroU64::ONE.
COUNT_MAX == U64_MAX
NonZeroU64_ONE == u64(1)

\* n.checked_add(1) on a NonZeroU64: None if the sum is not a u64.
checked_add(n) ==
    IF n = COUNT_MAX THEN [some |-> FALSE, val |-> n]
    ELSE [some |-> TRUE, val |-> wrapping_add(n)]

\* Sizes passed to alloc: small ones, DEFAULT_BLOCK_SIZE itself and oversize ones.
AllocSizes == 1 .. (DEFAULT_BLOCK_SIZE + OBJECT_ALIGN)

MutAddrs == 1 .. MaxMutators

\* An address is <<block, offset>>; block 0 is the pre-allocated region.
UndefAddr == <<0, 0>>
\* UnsafeRef: an address, together with the identity of the object the reference
\* was taken to (ghost; the program holds the address alone).
undef == [addr |-> UndefAddr, id |-> 0]
NoBlock == 0

VARIABLES
    blocks,         \* Heap::blocks, the Vec of blocks owned by the heap (block ids)
    mutators,       \* Heap::mutators, the registry (set of mutator addresses)
    pinned_roots,   \* Heap::pinned_roots, address -> NonZeroU64
    block,          \* the live Block values: id -> [capacity, cursor]
    nextBlock,      \* identity of the next block the memory source hands out
    mutator,        \* address -> the Mutator struct at that address
    status,         \* address -> "none" | "running" | "unwinding" | "dropping"
    stack,          \* address -> the thread's active with_* calls, outermost first
    reg,            \* address -> the UnsafeRef the thread holds in a local
    objects,        \* the objects: address -> [id, size, ref (its out-reference)]
    nextObj,        \* identity of the next object (ghost)
    pinLog,         \* address -> [new, clone, drop]: PinnedRoot operations (ghost)
    fatal,          \* the panics raised inside the heap: the message of the last
                    \* one, or "none", and the Mutexes that were poisoned
    gc,             \* the collector: phase, cycle counter, snapshot, marks, history
    heap,           \* Heap::with: where the call is, how often the heap was dropped,
                    \* and the granule of the memory source its blocks come from
    mutex,          \* the Mutex of Heap::pinned_roots and of Heap::blocks: its holder
    thread,         \* thread -> the call into the heap it is making, and how far it is
    eintr,          \* retry_on_eintr: the results f gives, the calls made, the return
    state,          \* the State struct: its three SyncOnceCells and next_scratch_dir
    fs,             \* the state directory on disk: the directories in it
    caller,         \* thread -> the State method it is in, and what it has got so far
    lexer           \* the Lexer: its input, what is left of it, the items it gave

heapVars == <<blocks, mutators, pinned_roots, block, nextBlock>>
mutVars == <<mutator, status, stack, reg>>
objVars == <<objects, nextObj>>
coreVars == <<heapVars, mutVars, objVars, pinLog, fatal, gc, heap>>
concVars == <<mutex, thread>>
dirVars == <<state, fs, caller>>
ioVars == <<eintr, dirVars, lexer>>
envVars == <<concVars, ioVars>>
vars == <<coreVars, envVars>>

(***************************************************************************)
(* Finite maps.                                                            *)
(***************************************************************************)
Get(f, k, default) == IF k \in DOMAIN f THEN f[k] ELSE default
Put(f, k, v) == [x \in (DOMAIN f) \cup {k} |-> IF x = k THEN v ELSE f[x]]
Remove(f, k) == [x \in (DOMAIN f) \ {k} |-> f[x]]
Occurrences(s, x) == Cardinality({i \in DOMAIN s : s[i] = x})
Last(s) == s[Len(s)]
Front(s) == SubSeq(s, 1, Len(s) - 1)

(***************************************************************************)
(* Block (block.rs; spec.md 4.1).                                          *)
(***************************************************************************)
RoundUp(size) == ((size + OBJECT_ALIGN - 1) \div OBJECT_ALIGN) * OBJECT_ALIGN

\* The memory source gives a block "at least capacity bytes" (spec.md 4.1) and
\* hands out regions (spec.md 6); how much more than the request a block can
\* use is not said.  A source has a granule, and a block can use its request
\* rounded up to a multiple of it: a byte (the block holds the request and no
\* more), the object alignment, or a page, scaled to DEFAULT_BLOCK_SIZE.
Granules == {1, OBJECT_ALIGN, DEFAULT_BLOCK_SIZE}

Block_with_capacity(capacity) ==
    LET g == heap.granule IN
    [capacity |-> ((capacity + g - 1) \div g) * g, cursor |-> 0]

Block_new == Block_with_capacity(DEFAULT_BLOCK_SIZE)

\* Mutant: the cursor advances by the size as requested, not rounded up.
try_alloc_unrounded(b, size) ==
    IF b.cursor + RoundUp(size) <= b.capacity
    THEN [some |-> TRUE, ptr |-> b.cursor,
          block |-> [b EXCEPT !.cursor = b.cursor + size]]
    ELSE [some |-> FALSE, ptr |-> 0, block |-> b]

\* try_alloc: the offset of the allocation and the block with its cursor advanced,
\* or none and the block as it was.
try_alloc(b, size) ==
    LET rounded == RoundUp(size) IN
    IF b.cursor + rounded <= b.capacity
    THEN [some |-> TRUE, ptr |-> b.cursor,
          block |-> [b EXCEPT !.cursor = b.cursor + rounded]]
    ELSE [some |-> FALSE, ptr |-> 0, block |-> b]

(***************************************************************************)
(* Heap: the operations on its three locked collections.                   *)
(***************************************************************************)
add_block(bs, id) == Append(bs, id)

register_mutator(set, m) == set \cup {m}

\* Mutant: the entry is looked up (get) instead of taken.
unregister_mutator_get(set, m) ==
    IF m \in set
    THEN [ok |-> TRUE, set |-> set]
    ELSE [ok |-> FALSE, set |-> set]

\* set.take(&mutator).expect("Use-after-drop of mutator")
unregister_mutator(set, m) ==
    IF m \in set
    THEN [ok |-> TRUE, set |-> set \ {m}]
    ELSE [ok |-> FALSE, set |-> set]

\* Mutant: insert(object, ONE) instead of the entry's and_modify.
retain_pinned_root_insert(pr, object) ==
    [ok |-> TRUE, map |-> Put(pr, object, NonZeroU64_ONE)]

\* Mutant: wrapping_add instead of checked_add; the count starts over.
retain_pinned_root_wrapping(pr, object) ==
    IF object \in DOMAIN pr
    THEN [ok |-> TRUE, map |-> [pr EXCEPT ![object] = wrapping_add(pr[object])]]
    ELSE [ok |-> TRUE, map |-> Put(pr, object, NonZeroU64_ONE)]

\* entry(object).and_modify(|n| *n = n.checked_add(1).expect(ERR))
\*               .or_insert(NonZeroU64::ONE)
retain_pinned_root(pr, object) ==
    IF object \in DOMAIN pr
    THEN LET n == checked_add(pr[object]) IN
         IF n.some
         THEN [ok |-> TRUE, map |-> [pr EXCEPT ![object] = n.val]]
         ELSE [ok |-> FALSE, map |-> pr]
    ELSE [ok |-> TRUE, map |-> Put(pr, object, NonZeroU64_ONE)]

\* Mutant: the vacant entry is filled with the count that remains, zero.
release_pinned_root_vacant(pr, object) ==
    IF object \in DOMAIN pr
    THEN IF minus_one(pr[object]) # u64(0)
         THEN [ok |-> TRUE, map |-> [pr EXCEPT ![object] = minus_one(pr[object])]]
         ELSE [ok |-> TRUE, map |-> Remove(pr, object)]
    ELSE [ok |-> TRUE, map |-> Put(pr, object, u64(0))]

\* Occupied: NonZeroU64::new(n - 1) is Some(n) => insert, None => remove_entry.
\* Vacant: unreachable!("Use-after-drop of pinned root").
release_pinned_root(pr, object) ==
    IF object \in DOMAIN pr
    THEN IF minus_one(pr[object]) # u64(0)
         THEN [ok |-> TRUE, map |-> [pr EXCEPT ![object] = minus_one(pr[object])]]
         ELSE [ok |-> TRUE, map |-> Remove(pr, object)]
    ELSE [ok |-> FALSE, map |-> pr]

\* No panic has been raised inside the heap.
NoFatal == [msg |-> "none", poisoned |-> {}]

\* A panic with message msg, raised while the MutexGuard of the Mutex name is
\* alive: the stack unwinds, and the guard poisons the Mutex when it is dropped.
Poison(msg, name) == [msg |-> msg, poisoned |-> fatal.poisoned \cup {name}]

\* A Mutex is poisoned once a thread has panicked while it held it: the fatal
\* errors of retain_pinned_root and release_pinned_root poison the Mutex of
\* pinned_roots, that of unregister_mutator the Mutex of mutators, and none
\* poisons the Mutex of blocks.  lock().unwrap() panics on a poisoned Mutex,
\* the PoisonError being the message, before the collection is touched.
Poisoned(name) == name \in fatal.poisoned

\* The count of an object in the map, zero for an object without an entry.
Count(pr, object) == Get(pr, object, u64(0))

\* The UnsafeRefs the two functions are called with directly.
PinAddrs == {<<1, 0>>, <<1, OBJECT_ALIGN>>, <<2, 0>>}

\* The counts the direct calls stay within: from none up to MaxCount, and from
\* the largest count down by MaxCount.
CountLow == <<LIMB - 1 - MaxCount, LIMB - 1, LIMB - 1, LIMB - 1>>

\* A call of Heap::retain_pinned_root.  A panic inside the function happens with
\* the mutex held and poisons it: every later lock().unwrap() panics before it
\* touches the map.
HeapRetain(object) ==
    /\ Count(pinned_roots, object) # u64(MaxCount)
    /\ IF Poisoned("pinned_roots")
       THEN /\ pinned_roots' = pinned_roots
            /\ fatal' = Poison("PoisonError", "pinned_roots")
       ELSE LET res == retain_pinned_root(pinned_roots, object) IN
            /\ pinned_roots' = res.map
            /\ fatal' = IF res.ok THEN fatal
                        ELSE Poison("Too many pinned roots for object", "pinned_roots")
    /\ UNCHANGED <<envVars, heap, blocks, mutators, block, nextBlock, mutVars, objVars,
                   pinLog, gc>>

\* A call of Heap::release_pinned_root.
HeapRelease(object) ==
    /\ Count(pinned_roots, object) # CountLow
    /\ IF Poisoned("pinned_roots")
       THEN /\ pinned_roots' = pinned_roots
            /\ fatal' = Poison("PoisonError", "pinned_roots")
       ELSE LET res == release_pinned_root(pinned_roots, object) IN
            /\ pinned_roots' = res.map
            /\ fatal' = IF res.ok THEN fatal
                        ELSE Poison("Use-after-drop of pinned root", "pinned_roots")
    /\ UNCHANGED <<envVars, heap, blocks, mutators, block, nextBlock, mutVars, objVars,
                   pinLog, gc>>

(***************************************************************************)
(* Mutator.                                                                *)
(***************************************************************************)
NoMutator == [allocator |-> NoBlock,
              stack_root_batches |-> <<>>,
              pinned_stack_roots |-> <<>>,
              borrowed |-> {}]

Top(m) == Last(stack[m])

\* The mutator is inside a safe_point_with region: in the callback, or in a
\* call the callback has made.
InSafePoint(m) ==
    \E i \in DOMAIN stack[m] : stack[m][i].kind = "safe_point_with"

\* The thread of mutator m runs user code outside the callback of safe_point_with,
\* which must not allocate or mutate.
Active(m) ==
    /\ status[m] = "running"
    /\ ~InSafePoint(m)

\* The reference is undef, or the object it was taken to is at its address.
IsObject(r) ==
    IF r.addr = UndefAddr THEN TRUE
    ELSE IF r.addr \in DOMAIN objects THEN objects[r.addr].id = r.id
    ELSE FALSE

\* alloc_large: an ad-hoc block for this one value.
alloc_large(m, size) ==
    LET r == try_alloc(Block_with_capacity(size), size) IN
    IF r.some
    THEN [ok |-> TRUE, ptr |-> <<nextBlock, r.ptr>>,
          allocator |-> mutator[m].allocator,
          block |-> Put(block, nextBlock, r.block),
          blocks |-> add_block(blocks, nextBlock),
          nextBlock |-> nextBlock + 1]
    ELSE \* expect("Block should have sufficient space"): the block is dropped
         [ok |-> FALSE, ptr |-> UndefAddr,
          allocator |-> mutator[m].allocator,
          block |-> block, blocks |-> blocks, nextBlock |-> nextBlock + 1]

\* Mutant: try_alloc is called on a copy of the allocator block, whose cursor
\* therefore stays where it was.
alloc_small_fast_copy(m, size) ==
    LET a == mutator[m].allocator
        r == try_alloc(block[a], size) IN
    [some |-> r.some, ptr |-> <<a, r.ptr>>, block |-> block]

\* alloc_small_fast: a pointer bump in the allocator.
alloc_small_fast(m, size) ==
    LET a == mutator[m].allocator
        r == try_alloc(block[a], size) IN
    [some |-> r.some, ptr |-> <<a, r.ptr>>, block |-> Put(block, a, r.block)]

\* Mutant: the new block goes to the heap and the old one stays the allocator.
alloc_small_slow_no_replace(m, size) ==
    LET r == try_alloc(Block_new, size) IN
    IF r.some
    THEN [ok |-> TRUE, ptr |-> <<nextBlock, r.ptr>>,
          allocator |-> mutator[m].allocator,
          block |-> Put(block, nextBlock, r.block),
          blocks |-> add_block(blocks, nextBlock),
          nextBlock |-> nextBlock + 1]
    ELSE [ok |-> FALSE, ptr |-> UndefAddr,
          allocator |-> mutator[m].allocator,
          block |-> block, blocks |-> blocks, nextBlock |-> nextBlock + 1]

\* alloc_small_slow: a new block becomes the allocator, the old one goes to the heap.
alloc_small_slow(m, size) ==
    LET r == try_alloc(Block_new, size) IN
    IF r.some
    THEN [ok |-> TRUE, ptr |-> <<nextBlock, r.ptr>>,
          allocator |-> nextBlock,
          block |-> Put(block, nextBlock, r.block),
          blocks |-> add_block(blocks, mutator[m].allocator),
          nextBlock |-> nextBlock + 1]
    ELSE [ok |-> FALSE, ptr |-> UndefAddr,
          allocator |-> mutator[m].allocator,
          block |-> block, blocks |-> blocks, nextBlock |-> nextBlock + 1]

alloc(m, size) ==
    IF size > DEFAULT_BLOCK_SIZE
    THEN alloc_large(m, size)
    ELSE LET fast == alloc_small_fast(m, size) IN
         IF fast.some
         THEN [ok |-> TRUE, ptr |-> fast.ptr,
               allocator |-> mutator[m].allocator,
               block |-> fast.block, blocks |-> blocks, nextBlock |-> nextBlock]
         ELSE alloc_small_slow(m, size)

\* Mutator::new: a fresh allocator block, registered before it is returned.
MutatorNew(m) ==
    /\ status[m] = "none"
    /\ nextBlock <= MaxBlocks
    /\ block' = Put(block, nextBlock, Block_new)
    /\ nextBlock' = nextBlock + 1
    /\ mutator' = [mutator EXCEPT ![m] = [NoMutator EXCEPT !.allocator = nextBlock]]
    /\ mutators' = register_mutator(mutators, m)
    /\ status' = [status EXCEPT ![m] = "running"]
    /\ UNCHANGED <<envVars, heap, blocks, pinned_roots, stack, reg, objVars, pinLog, fatal, gc>>

\* Mutator::alloc; the caller keeps the address in a local.  A failed expect
\* unwinds the thread.
Alloc(m, size) ==
    /\ Active(m)
    /\ LET r == alloc(m, size) IN
       /\ r.nextBlock <= MaxBlocks + 1
       /\ block' = r.block
       /\ blocks' = r.blocks
       /\ nextBlock' = r.nextBlock
       /\ mutator' = [mutator EXCEPT ![m].allocator = r.allocator]
       /\ status' = [status EXCEPT ![m] = IF r.ok THEN "running" ELSE "unwinding"]
       /\ reg' = [reg EXCEPT ![m] = IF r.ok THEN [addr |-> r.ptr, id |-> nextObj]
                                             ELSE undef]
       /\ objects' = IF r.ok
                     THEN Put(objects, r.ptr,
                              [id |-> nextObj, size |-> size, ref |-> undef])
                     ELSE objects
       /\ nextObj' = IF r.ok THEN nextObj + 1 ELSE nextObj
    /\ UNCHANGED <<envVars, heap, mutators, pinned_roots, stack, pinLog, fatal, gc>>

\* What the Vecs of the mutator look like once a frame has been pushed.
\* Mutant: the slice pushed is the empty prefix of the batch.
push_stack_root_batch_empty(mu, ptr, n) ==
    [mu EXCEPT !.stack_root_batches = Append(@, [ptr |-> ptr, len |-> 0])]

\* Mutant: the RefMut is not dropped before f is called.
push_stack_root_batch_held(mu, ptr, n) ==
    [mu EXCEPT !.stack_root_batches = Append(@, [ptr |-> ptr, len |-> n]),
               !.borrowed = @ \cup {"stack_root_batches"}]

\* borrow_mut, push and drop of the RefMut: the RefCell is left unborrowed.
push_stack_root_batch(mu, ptr, n) ==
    [mu EXCEPT !.stack_root_batches = Append(@, [ptr |-> ptr, len |-> n])]

\* Mutant: the call runs f without recording the object in the Vec.
push_pinned_stack_root_none(mu, object) == mu

\* Mutant: the object is put below the objects already on the stack.
push_pinned_stack_root_front(mu, object) ==
    [mu EXCEPT !.pinned_stack_roots = <<object>> \o @]

push_pinned_stack_root(mu, object) ==
    [mu EXCEPT !.pinned_stack_roots = Append(@, object)]

\* Mutant: with_pinned_stack_root's block pops stack_root_batches, as the block
\* of with_stack_roots it was written after does.
scope_exit_wrong_stack(mu, frame) ==
    CASE frame.kind = "with_stack_roots" ->
            [mu EXCEPT !.stack_root_batches = Front(@)]
      [] frame.kind = "with_pinned_stack_root" ->
            [mu EXCEPT !.stack_root_batches = Front(@)]
      [] OTHER -> mu

\* The scope_exit! block of the call that frame belongs to.
scope_exit(mu, frame) ==
    CASE frame.kind = "with_stack_roots" ->
            [mu EXCEPT !.stack_root_batches = Front(@)]
      [] frame.kind = "with_pinned_stack_root" ->
            [mu EXCEPT !.pinned_stack_roots = Front(@)]
      [] OTHER -> mu

Frame(kind, batch, root, m) ==
    [kind |-> kind, batch |-> batch, root |-> root,
     pre |-> <<mutator[m].stack_root_batches, mutator[m].pinned_stack_roots>>]

\* with_stack_roots::<N>(f), up to the call of f.
WithStackRoots(m, n) ==
    /\ status[m] = "running"
    /\ Len(stack[m]) < MaxDepth
    /\ IF "stack_root_batches" \in mutator[m].borrowed
       THEN \* borrow_mut panics: already borrowed
            /\ status' = [status EXCEPT ![m] = "unwinding"]
            /\ reg' = [reg EXCEPT ![m] = undef]
            /\ UNCHANGED <<mutator, stack>>
       ELSE /\ mutator' = [mutator EXCEPT
                             ![m] = push_stack_root_batch(@, Len(stack[m]) + 1, n)]
            /\ stack' = [stack EXCEPT ![m] =
                           Append(@, Frame("with_stack_roots",
                                           [i \in 1 .. n |-> undef], undef, m))]
            /\ UNCHANGED <<status, reg>>
    /\ UNCHANGED <<envVars, heap, heapVars, objVars, pinLog, fatal, gc>>

\* with_pinned_stack_root_unsafe(object, f), up to the call of f; object is the
\* reference the thread holds.
WithPinnedStackRoot(m) ==
    /\ status[m] = "running"
    /\ Len(stack[m]) < MaxDepth
    /\ IsObject(reg[m])
    /\ IF "pinned_stack_roots" \in mutator[m].borrowed
       THEN \* borrow_mut panics: already borrowed
            /\ status' = [status EXCEPT ![m] = "unwinding"]
            /\ reg' = [reg EXCEPT ![m] = undef]
            /\ UNCHANGED <<mutator, stack>>
       ELSE /\ mutator' = [mutator EXCEPT
                             ![m] = push_pinned_stack_root(@, reg[m].addr)]
            /\ stack' = [stack EXCEPT ![m] =
                           Append(@, Frame("with_pinned_stack_root", <<>>,
                                           reg[m], m))]
            /\ UNCHANGED <<status, reg>>
    /\ UNCHANGED <<envVars, heap, heapVars, objVars, pinLog, fatal, gc>>

\* f returns: the scope_exit! block runs and the call returns.
Return(m) ==
    /\ status[m] = "running"
    /\ stack[m] # <<>>
    /\ Top(m).kind # "safe_point_with"
    /\ mutator' = [mutator EXCEPT ![m] = scope_exit(@, Top(m))]
    /\ stack' = [stack EXCEPT ![m] = Front(@)]
    /\ UNCHANGED <<envVars, heap, heapVars, status, reg, objVars, pinLog, fatal, gc>>

\* f panics.
Panic(m) ==
    /\ status[m] = "running"
    /\ stack[m] # <<>>
    /\ status' = [status EXCEPT ![m] = "unwinding"]
    /\ reg' = [reg EXCEPT ![m] = undef]
    /\ UNCHANGED <<envVars, heap, heapVars, mutator, stack, objVars, pinLog, fatal, gc>>

\* The panic unwinds through one call: its scope_exit! block runs.
Unwind(m) ==
    /\ status[m] = "unwinding"
    /\ stack[m] # <<>>
    /\ mutator' = [mutator EXCEPT ![m] = scope_exit(@, Top(m))]
    /\ stack' = [stack EXCEPT ![m] = Front(@)]
    /\ UNCHANGED <<envVars, heap, heapVars, status, reg, objVars, pinLog, fatal, gc>>

\* The panic is caught (catch_unwind) by the caller of the call it has unwound.
Caught(m) ==
    /\ status[m] = "unwinding"
    /\ status' = [status EXCEPT ![m] = "running"]
    /\ UNCHANGED <<envVars, heap, heapVars, mutator, stack, reg, objVars, pinLog, fatal, gc>>

\* Mutant: the allocator stays in its ManuallyDrop and is never given to the heap.
drop_add_block_leak(bs, allocator) == bs

\* Drop for Mutator, first statement: ManuallyDrop::take moves the allocator out
\* (the field keeps its bits, the mutator no longer owns the block) and the block
\* goes to the heap.  The mutator is dropped by its owner, or by a panic that
\* unwinds through its owner.
drop_add_block(bs, allocator) == add_block(bs, allocator)

MutatorDropAddBlock(m) ==
    /\ status[m] \in {"running", "unwinding"}
    /\ stack[m] = <<>>
    /\ blocks' = drop_add_block(blocks, mutator[m].allocator)
    /\ status' = [status EXCEPT ![m] = "dropping"]
    /\ reg' = [reg EXCEPT ![m] = undef]
    /\ UNCHANGED <<envVars, heap, mutators, pinned_roots, block, nextBlock, mutator, stack,
                   objVars, pinLog, fatal, gc>>

\* Drop for Mutator, second statement: unregister; then the box is freed.
MutatorDropUnregister(m) ==
    /\ status[m] = "dropping"
    /\ LET r == unregister_mutator(mutators, m) IN
       /\ mutators' = r.set
       /\ fatal' = IF r.ok THEN fatal ELSE Poison("Use-after-drop of mutator", "mutators")
    /\ mutator' = [mutator EXCEPT ![m] = NoMutator]
    /\ status' = [status EXCEPT ![m] = "none"]
    /\ UNCHANGED <<envVars, heap, blocks, pinned_roots, block, nextBlock, stack, reg, objVars,
                   pinLog, gc>>

(***************************************************************************)
(* Roots (refs.rs; spec.md 4.3).                                           *)
(***************************************************************************)
NoPins == [new |-> 0, clone |-> 0, drop |-> 0]

Pins(r) == Get(pinLog, r, NoPins)

\* The PinnedRoot values on object r that are alive.
LivePinnedRoots(r) == Pins(r).new + Pins(r).clone - Pins(r).drop

PinOps ==
    LET RECURSIVE Sum(_)
        Sum(S) == IF S = {} THEN 0
                  ELSE LET r == CHOOSE x \in S : TRUE
                       IN Pins(r).new + Pins(r).clone + Sum(S \ {r})
    IN Sum(DOMAIN pinLog)

Retain(r, field) ==
    IF Poisoned("pinned_roots")
    THEN /\ fatal' = Poison("PoisonError", "pinned_roots")
         /\ UNCHANGED <<pinned_roots, pinLog>>
    ELSE LET res == retain_pinned_root(pinned_roots, r) IN
         /\ pinned_roots' = res.map
         /\ fatal' = IF res.ok THEN fatal
                     ELSE Poison("Too many pinned roots for object", "pinned_roots")
         /\ pinLog' = IF res.ok
                      THEN Put(pinLog, r, [Pins(r) EXCEPT ![field] = @ + 1])
                      ELSE pinLog

\* PinnedRoot::new(heap, object), object being the reference the thread holds.
PinnedRootNew(m) ==
    /\ Active(m)
    /\ IsObject(reg[m])
    /\ PinOps < MaxPinOps
    /\ Retain(reg[m].addr, "new")
    /\ UNCHANGED <<envVars, heap, blocks, mutators, block, nextBlock, mutVars, objVars, gc>>

\* Clone for PinnedRoot, on any thread.
PinnedRootClone(r) ==
    /\ LivePinnedRoots(r) > 0
    /\ PinOps < MaxPinOps
    /\ Retain(r, "clone")
    /\ UNCHANGED <<envVars, heap, blocks, mutators, block, nextBlock, mutVars, objVars, gc>>

\* Drop for PinnedRoot, on any thread.
PinnedRootDrop(r) ==
    /\ LivePinnedRoots(r) > 0
    /\ IF Poisoned("pinned_roots")
       THEN /\ pinned_roots' = pinned_roots
            /\ fatal' = Poison("PoisonError", "pinned_roots")
       ELSE LET res == release_pinned_root(pinned_roots, r) IN
            /\ pinned_roots' = res.map
            /\ fatal' = IF res.ok THEN fatal
                        ELSE Poison("Use-after-drop of pinned root", "pinned_roots")
    /\ pinLog' = Put(pinLog, r, [Pins(r) EXCEPT !.drop = @ + 1])
    /\ UNCHANGED <<envVars, heap, blocks, mutators, block, nextBlock, mutVars, objVars, gc>>

\* StackRoot::set: the slot takes the reference the thread holds.
StackRootSet(m, i, k) ==
    /\ Active(m)
    /\ i \in DOMAIN stack[m]
    /\ k \in DOMAIN stack[m][i].batch
    /\ IsObject(reg[m])
    /\ stack' = [stack EXCEPT ![m][i].batch[k] = reg[m]]
    /\ UNCHANGED <<envVars, heap, heapVars, mutator, status, reg, objVars, pinLog, fatal, gc>>

\* StackRoot::get: the thread takes the reference in the slot.
StackRootGet(m, i, k) ==
    /\ Active(m)
    /\ i \in DOMAIN stack[m]
    /\ k \in DOMAIN stack[m][i].batch
    /\ reg' = [reg EXCEPT ![m] = stack[m][i].batch[k]]
    /\ UNCHANGED <<envVars, heap, heapVars, mutator, status, stack, objVars, pinLog, fatal, gc>>

\* The thread writes the out-reference of the object it holds: the reference in
\* a stack root.
StoreRef(m, i, k) ==
    /\ Active(m)
    /\ i \in DOMAIN stack[m]
    /\ k \in DOMAIN stack[m][i].batch
    /\ reg[m].addr \in DOMAIN objects
    /\ objects' = [objects EXCEPT ![reg[m].addr].ref = stack[m][i].batch[k]]
    /\ UNCHANGED <<envVars, heap, heapVars, mutVars, nextObj, pinLog, fatal, gc>>

(***************************************************************************)
(* Safe points.                                                            *)
(***************************************************************************)
\* The cycle that is requested or in progress, or 0.
CurrentCycle == IF gc.phase = "idle" THEN 0 ELSE gc.cycle

\* safe_point: safe_point_with(|| ()), which is f() and nothing else.  The call
\* and its return are one step; gc.sp records the cycle requested at the call and
\* the cycles completed at the return (ghost).  References the thread holds are
\* dead after a safe point.
SafePoint(m) ==
    /\ status[m] = "running"
    /\ gc' = [gc EXCEPT !.sp[m] = [cycle |-> CurrentCycle, done |-> gc.done]]
    /\ reg' = [reg EXCEPT ![m] = undef]
    /\ UNCHANGED <<envVars, heap, heapVars, mutator, status, stack, objVars, pinLog, fatal>>

\* safe_point_with(f), up to the call of f, which may be made anywhere, also
\* inside the callback of another safe_point_with; f has the references the
\* thread holds.
SafePointWithCall(m) ==
    /\ status[m] = "running"
    /\ Len(stack[m]) < MaxDepth
    /\ stack' = [stack EXCEPT ![m] = Append(@, Frame("safe_point_with", <<>>, undef, m))]
    /\ UNCHANGED <<envVars, heap, heapVars, mutator, status, reg, objVars, pinLog, fatal, gc>>

\* f returns, and so does safe_point_with.  References the thread holds are
\* dead after a safe point.
SafePointWithReturn(m) ==
    /\ status[m] = "running"
    /\ stack[m] # <<>>
    /\ Top(m).kind = "safe_point_with"
    /\ stack' = [stack EXCEPT ![m] = Front(@)]
    /\ reg' = [reg EXCEPT ![m] = undef]
    /\ UNCHANGED <<envVars, heap, heapVars, mutator, status, objVars, pinLog, fatal, gc>>

(***************************************************************************)
(* The collector (spec.md 4.4).                                            *)
(***************************************************************************)
GcIdle == [phase |-> "idle", cycle |-> 0, done |-> 0,
           roots |-> {}, pinned |-> {}, marked |-> {}, pinnedSet |-> {},
           pinnedAt |-> {}, moved |-> {}, reclaimed |-> {},
           sp |-> [m \in MutAddrs |-> [cycle |-> 0, done |-> 0]]]

\* The StackRoot slots on the stack of mutator m: <<frame, slot>>.
StackSlots(m) ==
    UNION {{<<i, k>> : k \in DOMAIN stack[m][i].batch} : i \in DOMAIN stack[m]}

\* The slots the batch table of mutator m describes.
BatchSlots(m) ==
    {sl \in StackSlots(m) :
        \E j \in DOMAIN mutator[m].stack_root_batches :
            /\ mutator[m].stack_root_batches[j].ptr = sl[1]
            /\ sl[2] <= mutator[m].stack_root_batches[j].len}

\* Step 3 (a): every StackRoot in every batch of every registered mutator.
CollectorStackRoots ==
    UNION {{stack[m][sl[1]].batch[sl[2]].addr : sl \in BatchSlots(m)} :
             m \in mutators}

\* Step 3 (b): every pinned stack root of every registered mutator, and every key
\* of the pinned-root multiset.
CollectorPinned ==
    UNION {{mutator[m].pinned_stack_roots[j] :
              j \in DOMAIN mutator[m].pinned_stack_roots} : m \in mutators}
    \cup DOMAIN pinned_roots

\* The objects reachable from the addresses S through out-references.
RECURSIVE Reach(_)
Reach(S) ==
    LET live == S \cap DOMAIN objects
        next == live \cup ({objects[a].ref.addr : a \in live} \cap DOMAIN objects)
    IN IF next = live THEN live ELSE Reach(next)

\* Step 1: a collection is requested.
GcRequest ==
    /\ gc.phase = "idle"
    /\ gc.cycle < MaxCycles
    /\ gc' = [gc EXCEPT !.phase = "requested", !.cycle = @ + 1]
    /\ UNCHANGED <<envVars, heap, heapVars, mutVars, objVars, pinLog, fatal>>

\* Step 2: once all mutators are in safe-point state, the world is stopped.
GcStop ==
    /\ gc.phase = "requested"
    /\ \A m \in mutators : InSafePoint(m)
    /\ gc' = [gc EXCEPT !.phase = "stopped"]
    /\ UNCHANGED <<envVars, heap, heapVars, mutVars, objVars, pinLog, fatal>>

\* The PinnedStackRoots and PinnedRoots that are alive, with the object each
\* refers to (ghost).
LivePinned ==
    UNION {{stack[m][i].root : i \in {j \in DOMAIN stack[m] :
                stack[m][j].kind = "with_pinned_stack_root"}} : m \in MutAddrs}
    \cup {[addr |-> a, id |-> objects[a].id] :
            a \in {x \in DOMAIN pinLog \cap DOMAIN objects : LivePinnedRoots(x) > 0}}

\* Step 3: the root snapshot.
GcSnapshot ==
    /\ gc.phase = "stopped"
    /\ gc' = [gc EXCEPT !.phase = "snapshot",
                        !.roots = CollectorStackRoots \cup CollectorPinned,
                        !.pinned = CollectorPinned,
                        !.pinnedAt = LivePinned]
    /\ UNCHANGED <<envVars, heap, heapVars, mutVars, objVars, pinLog, fatal>>

\* Step 4: trace from the roots; what is reachable from the pinned set keeps its
\* address.
GcTrace ==
    /\ gc.phase = "snapshot"
    /\ gc' = [gc EXCEPT !.phase = "traced",
                        !.marked = Reach(gc.roots),
                        !.pinnedSet = Reach(gc.pinned)]
    /\ UNCHANGED <<envVars, heap, heapVars, mutVars, objVars, pinLog, fatal>>


\* The bytes the objects at the addresses S take in a block.
RECURSIVE SizeOf(_)
SizeOf(S) ==
    IF S = {} THEN 0
    ELSE LET a == CHOOSE x \in S : TRUE
         IN RoundUp(objects[a].size) + SizeOf(S \ {a})

\* The new address of the object at a, the objects at Moved being moved to a new
\* block in the order of their allocation.
Forward(a, Moved) ==
    IF a \in Moved
    THEN <<nextBlock, SizeOf({b \in Moved : objects[b].id < objects[a].id})>>
    ELSE a

ForwardRef(r, Moved) == [r EXCEPT !.addr = Forward(r.addr, Moved)]

\* The objects the cycle may move: marked, not reachable from the pinned set, not
\* oversize.
Movable ==
    {a \in gc.marked \cap DOMAIN objects :
        a \notin gc.pinnedSet /\ objects[a].size <= DEFAULT_BLOCK_SIZE}

\* Step 5: unmarked objects are reclaimed, the objects at Moved are moved, and
\* the references in the roots and in the objects are rewritten.  Blocks of the
\* heap that hold no object any more are destroyed.
GcCompact(Moved) ==
    /\ gc.phase = "traced"
    /\ SizeOf(Moved) <= DEFAULT_BLOCK_SIZE
    /\ IF Moved = {} THEN TRUE ELSE nextBlock <= MaxBlocks
    /\ LET survivors == gc.marked \cap DOMAIN objects
           old(x) == CHOOSE a \in survivors : Forward(a, Moved) = x
           objs == [x \in {Forward(a, Moved) : a \in survivors} |->
                      [objects[old(x)] EXCEPT !.ref = ForwardRef(@, Moved)]]
           Used(b) == \E x \in DOMAIN objs : x[1] = b
           kept == SelectSeq(blocks, Used)
           gone == {blocks[i] : i \in DOMAIN blocks} \ {kept[i] : i \in DOMAIN kept}
       IN
       /\ objects' = objs
       /\ stack' = [m \in MutAddrs |->
                      [i \in DOMAIN stack[m] |->
                         [stack[m][i] EXCEPT !.batch =
                            [k \in DOMAIN @ |->
                               IF m \in mutators /\ <<i, k>> \in BatchSlots(m)
                               THEN ForwardRef(@[k], Moved)
                               ELSE @[k]]]]]
       /\ blocks' = IF Moved = {} THEN kept ELSE add_block(kept, nextBlock)
       /\ block' = LET rest == [b \in (DOMAIN block) \ gone |-> block[b]] IN
                   IF Moved = {} THEN rest
                   ELSE Put(rest, nextBlock,
                            [Block_new EXCEPT !.cursor = SizeOf(Moved)])
       /\ nextBlock' = IF Moved = {} THEN nextBlock ELSE nextBlock + 1
       /\ gc' = [gc EXCEPT !.phase = "compacted",
                           !.moved = Moved,
                           !.reclaimed = (DOMAIN objects) \ survivors]
    /\ UNCHANGED <<envVars, heap, mutators, pinned_roots, mutator, status, reg, nextObj, pinLog,
                   fatal>>

\* Step 6: the safe-point flag is lowered.
GcResume ==
    /\ gc.phase = "compacted"
    /\ gc' = [GcIdle EXCEPT !.cycle = gc.cycle, !.done = gc.done + 1, !.sp = gc.sp]
    /\ UNCHANGED <<envVars, heap, heapVars, mutVars, objVars, pinLog, fatal>>

(***************************************************************************)
(* Heap::with.  The heap is a local of the call; f gets a reference to it  *)
(* that nothing f returns can hold.                                        *)
(***************************************************************************)
\* The callback owns no mutator: each one it made was dropped, or leaked.
NoMutatorOwned == \A m \in MutAddrs : status[m] \in {"none", "leaked"}

\* The owner of a mutator leaks it (mem::forget of the Pin<Box<Mutator>>): the
\* box stays where it is and Drop for Mutator never runs.
MutatorForget(m) ==
    /\ status[m] = "running"
    /\ stack[m] = <<>>
    /\ status' = [status EXCEPT ![m] = "leaked"]
    /\ reg' = [reg EXCEPT ![m] = undef]
    /\ UNCHANGED <<envVars, heap, heapVars, mutator, stack, objVars, pinLog, fatal, gc>>

\* f returns, its locals having been dropped; then the local heap is dropped.
WithReturn ==
    /\ heap.pc = "f"
    /\ NoMutatorOwned
    /\ heap' = [heap EXCEPT !.pc = "returned", !.dropped = @ + 1]
    /\ UNCHANGED <<envVars, heapVars, mutVars, objVars, pinLog, fatal, gc>>

\* f panics: the stack unwinds, dropping the locals of f.
WithPanic ==
    /\ heap.pc = "f"
    /\ heap' = [heap EXCEPT !.pc = "unwinding"]
    /\ UNCHANGED <<envVars, heapVars, mutVars, objVars, pinLog, fatal, gc>>

\* The panic leaves Heap::with: the local heap is dropped.
WithUnwound ==
    /\ heap.pc = "unwinding"
    /\ NoMutatorOwned
    /\ heap' = [heap EXCEPT !.pc = "panicked", !.dropped = @ + 1]
    /\ UNCHANGED <<envVars, heapVars, mutVars, objVars, pinLog, fatal, gc>>

(***************************************************************************)
(* Threads that share the heap: PinnedRoot is Send, and every mutator      *)
(* thread hands blocks to the heap.  A call locks the Mutex of the         *)
(* collection, works on what it finds there, and unlocks on return.        *)
(***************************************************************************)
Threads == 1 .. MaxThreads
NoThread == 0
ThreadIdle == [pc |-> "idle", op |-> "none", object |-> UndefAddr,
               seen |-> <<>>, calls |-> 0]

\* The objects the threads hold PinnedRoots on.
SharedAddrs == {<<1, 0>>, <<1, OBJECT_ALIGN>>}

\* The Mutex a call locks.
MutexOf(op) == IF op = "add_block" THEN "blocks" ELSE "pinned_roots"

\* Mutant: lock returns at once, whoever holds the mutex.
Mutex_lock_racy(holder) == TRUE

\* Mutex::lock returns when no thread holds the mutex.
Mutex_lock(holder) == holder = NoThread

\* A thread begins PinnedRoot::new (op "new"), Clone (op "clone") or Drop (op
\* "drop") on an object; the root that is cloned or dropped exists, and a
\* dropped root is gone from here on.
ThreadPinCall(t, op, object) ==
    /\ thread[t].pc = "idle"
    /\ thread[t].calls < MaxCalls
    /\ op \in {"clone", "drop"} => LivePinnedRoots(object) > 0
    /\ thread' = [thread EXCEPT ![t] =
                    [pc |-> "call", op |-> op, object |-> object,
                     seen |-> <<>>, calls |-> @.calls + 1]]
    /\ pinLog' = IF op = "drop"
                 THEN Put(pinLog, object, [Pins(object) EXCEPT !.drop = @ + 1])
                 ELSE pinLog
    /\ UNCHANGED <<ioVars, heapVars, mutVars, objVars, fatal, gc, heap, mutex>>

\* A thread has a block of its own (a retired allocator, an ad-hoc block) and
\* begins Heap::add_block with it.
ThreadAddBlockCall(t) ==
    /\ thread[t].pc = "idle"
    /\ thread[t].calls < MaxCalls
    /\ nextBlock <= MaxBlocks
    /\ block' = Put(block, nextBlock, Block_new)
    /\ nextBlock' = nextBlock + 1
    /\ thread' = [thread EXCEPT ![t] =
                    [pc |-> "call", op |-> "add_block",
                     object |-> <<nextBlock, 0>>,
                     seen |-> <<>>, calls |-> @.calls + 1]]
    /\ UNCHANGED <<ioVars, blocks, mutators, pinned_roots, mutVars, objVars,
                   pinLog, fatal, gc, heap, mutex>>

\* lock().unwrap(): the thread holds the mutex and sees the collection.  On a
\* poisoned Mutex lock returns an error as soon as the mutex is free, unwrap
\* panics and the call is over; the Mutex of the other collection is not affected.
ThreadLock(t) ==
    LET name == MutexOf(thread[t].op) IN
    /\ thread[t].pc = "call"
    /\ Mutex_lock(mutex[name])
    /\ IF Poisoned(name)
       THEN /\ thread' = [thread EXCEPT ![t].pc = "idle"]
            /\ fatal' = Poison("PoisonError", name)
            /\ UNCHANGED mutex
       ELSE /\ mutex' = [mutex EXCEPT ![name] = t]
            /\ thread' = [thread EXCEPT ![t].pc = "locked",
                                        ![t].seen = IF name = "blocks" THEN blocks
                                                    ELSE pinned_roots]
            /\ UNCHANGED fatal
    /\ UNCHANGED <<ioVars, heapVars, mutVars, objVars, pinLog, gc, heap>>

\* The body of the call and its return, which drops the MutexGuard.
ThreadUnlock(t) ==
    LET op == thread[t].op
        object == thread[t].object
        seen == thread[t].seen
    IN
    /\ thread[t].pc = "locked"
    /\ mutex' = [mutex EXCEPT ![MutexOf(op)] = NoThread]
    /\ thread' = [thread EXCEPT ![t].pc = "idle", ![t].seen = <<>>]
    /\ IF op = "add_block"
       THEN /\ blocks' = add_block(seen, object[1])
            /\ UNCHANGED <<pinned_roots, pinLog, fatal>>
       ELSE IF op = "drop"
       THEN LET res == release_pinned_root(seen, object) IN
            /\ pinned_roots' = res.map
            /\ fatal' = IF res.ok THEN fatal
                        ELSE Poison("Use-after-drop of pinned root", "pinned_roots")
            /\ UNCHANGED <<blocks, pinLog>>
       ELSE LET res == retain_pinned_root(seen, object) IN
            /\ pinned_roots' = res.map
            /\ fatal' = IF res.ok THEN fatal
                        ELSE Poison("Too many pinned roots for object", "pinned_roots")
            /\ pinLog' = IF res.ok
                         THEN Put(pinLog, object, [Pins(object) EXCEPT ![op] = @ + 1])
                         ELSE pinLog
            /\ UNCHANGED blocks
    /\ UNCHANGED <<ioVars, mutators, block, nextBlock, mutVars, objVars, gc, heap>>

(***************************************************************************)
(* os-ext: retry_on_eintr.  f is the list of results its calls give, the   *)
(* last one being repeated for ever after.                                 *)
(***************************************************************************)
\* io::Result values: Ok values and the kinds of Err.
FResults == {"Ok(0)", "Ok(1)", "Interrupted", "NotFound"}

\* The result of call number k of f.
FResult(k) ==
    eintr.results[IF k <= Len(eintr.results) THEN k ELSE Len(eintr.results)]

\* Mutant: every Err is retried.
retry_on_eintr_match_any_err(result) ==
    IF result \in {"Interrupted", "NotFound"} THEN "continue" ELSE "return"

\* The match of the loop: Err(err) if err.kind() == Interrupted => continue,
\* result => return result.
retry_on_eintr_match(result) ==
    IF result = "Interrupted" THEN "continue" ELSE "return"

RetryIdle == [results |-> <<>>, calls |-> 0, pc |-> "none", ret |-> "none"]

\* One turn of the loop of retry_on_eintr: f is called and its result matched.
RetryLoop ==
    /\ eintr.pc = "loop"
    /\ LET k == eintr.calls + 1
           result == FResult(k)
       IN eintr' = [eintr EXCEPT
                      !.calls = IF k <= MaxFCalls THEN k ELSE MaxFCalls,
                      !.pc = IF retry_on_eintr_match(result) = "continue"
                             THEN "loop" ELSE "returned",
                      !.ret = IF retry_on_eintr_match(result) = "continue"
                              THEN "none" ELSE result]
    /\ UNCHANGED <<coreVars, concVars, dirVars, lexer>>

(***************************************************************************)
(* snowflake: the State directory.  A handle is an OwnedFd: the path it    *)
(* was opened at and the number of the descriptor.                         *)
(***************************************************************************)
Callers == 1 .. MaxCallers
SCRATCHES_DIR == "scratches"
CACHED_ACTIONS_DIR == "cached_actions"
CACHED_OUTPUTS_DIR == "cached_outputs"
Components == {SCRATCHES_DIR, CACHED_ACTIONS_DIR, CACHED_OUTPUTS_DIR}

\* A call none of the threads has made: what made the directories that were
\* there before.
NoCall == <<0, 0>>
NoFd == [path |-> <<>>, fd |-> 0]
Ok(fd) == [ok |-> TRUE, fd |-> fd, err |-> "none"]
Err(kind) == [ok |-> FALSE, fd |-> NoFd, err |-> kind]
NoResult == [ok |-> FALSE, fd |-> NoFd, err |-> "none"]

\* State::open: the cells are empty and the counter is 0.
State_open ==
    [cell |-> [c \in Components |-> NoFd],
     once |-> [c \in Components |-> "incomplete"],
     next_scratch_dir |-> u32(0),
     opened |-> [c \in Components |-> 0],   \* ghost: successful openat calls
     taken |-> <<>>,                         \* ghost: the values fetch_add gave
     made |-> <<>>]                          \* ghost: the numbers of the Ok calls

CallerIdle == [pc |-> "idle", op |-> "none", component |-> SCRATCHES_DIR,
               dir |-> NoFd, id |-> u32(0), ret |-> NoResult, calls |-> 0]

\* The component directory a method of State uses.
ComponentOf(op) ==
    IF op = "new_scratch_dir" THEN SCRATCHES_DIR
    ELSE IF op = "cached_actions_dir" THEN CACHED_ACTIONS_DIR
    ELSE CACHED_OUTPUTS_DIR

\* The call a thread is making.
CallOf(t) == <<t, caller[t].calls>>

\* ok_if_already_exists: whether the error of mkdirat becomes Ok(()).
ok_if_already_exists(err) == err = "AlreadyExists"

\* Mutant: the counter is read and is not advanced.
fetch_add_load(n) == n

\* fetch_add(1, SeqCst) on the AtomicU32: the value of the counter afterwards;
\* the addition wraps around.
fetch_add(n) == wrapping_add(n)

\* Mutant: the closure is run whatever the state of the Once.
call_once_force_always(once) == "run"

\* Once::call_once_force as SyncOnceCell::initialize uses it: the closure is
\* not run when the Once is complete, the caller waits while another thread
\* runs its closure, and runs its own otherwise (also after a failed one).
call_once_force(once) ==
    IF once = "complete" THEN "skip"
    ELSE IF once = "running" THEN "wait"
    ELSE "run"

\* A system call fails for a reason of its own (no permission, no space, ...).
Fault == fs.faults > 0

\* Mutant: a directory that exists is accepted, as by mkdir -p.
mkdirat_existing_ok(exists, fault) ==
    IF fault THEN "PermissionDenied" ELSE "none"

\* mkdirat(2): the error it fails with, or none.
mkdirat(exists, fault) ==
    IF fault THEN "PermissionDenied"
    ELSE IF exists THEN "AlreadyExists"
    ELSE "none"

\* A thread calls new_scratch_dir, cached_actions_dir or cached_outputs_dir.
StateCall(t, op) ==
    /\ caller[t].pc = "idle"
    /\ caller[t].calls < MaxDirCalls
    /\ caller' = [caller EXCEPT ![t] =
                    [CallerIdle EXCEPT !.pc = "get", !.op = op,
                                       !.component = ComponentOf(op),
                                       !.calls = caller[t].calls + 1]]
    /\ UNCHANGED <<coreVars, concVars, eintr, lexer, state, fs>>

\* ensure_open_dir_once, get_or_try_init: the cell is looked at first.
CellGet(t) ==
    LET c == caller[t].component IN
    /\ caller[t].pc = "get"
    /\ caller' = [caller EXCEPT
                    ![t].pc = IF state.cell[c] # NoFd THEN "have_dir" ELSE "once",
                    ![t].dir = state.cell[c]]
    /\ UNCHANGED <<coreVars, concVars, eintr, lexer, state, fs>>

\* get_or_try_init, the cell having been empty: the Once decides.
CellOnce(t) ==
    LET c == caller[t].component
        what == call_once_force(state.once[c])
    IN
    /\ caller[t].pc = "once"
    /\ what # "wait"
    /\ IF what = "skip"
       THEN /\ caller' = [caller EXCEPT ![t].pc = "have_dir",
                                        ![t].dir = state.cell[c]]
            /\ state' = state
       ELSE /\ caller' = [caller EXCEPT ![t].pc = "mkdirat"]
            /\ state' = [state EXCEPT !.once[c] = "running"]
    /\ UNCHANGED <<coreVars, concVars, eintr, lexer, fs>>

\* The closure: mkdirat(dirfd, path, 0o755).or_else(ok_if_already_exists)?
CellMkdirat(t, fault) ==
    LET c == caller[t].component
        result == mkdirat(c \in fs.components, fault)
        ok == IF result = "none" THEN TRUE ELSE ok_if_already_exists(result)
    IN
    /\ caller[t].pc = "mkdirat"
    /\ fault => Fault
    /\ fs' = [fs EXCEPT !.components = IF result = "none" THEN @ \cup {c} ELSE @,
                        !.faults = IF fault THEN @ - 1 ELSE @]
    /\ IF ok
       THEN /\ caller' = [caller EXCEPT ![t].pc = "openat"]
            /\ state' = state
       ELSE \* the closure fails: the Once is left incomplete
            /\ caller' = [caller EXCEPT ![t].pc = "return",
                                        ![t].ret = Err(result)]
            /\ state' = [state EXCEPT !.once[c] = "incomplete"]
    /\ UNCHANGED <<coreVars, concVars, eintr, lexer>>

\* The closure: openat(dirfd, path, O_DIRECTORY | O_PATH, 0); its value is
\* written to the cell.
CellOpenat(t, fault) ==
    LET c == caller[t].component
        missing == c \notin fs.components
        fd == [path |-> <<c>>, fd |-> fs.next_fd]
    IN
    /\ caller[t].pc = "openat"
    /\ fault => Fault
    /\ IF fault \/ missing
       THEN /\ caller' = [caller EXCEPT
                            ![t].pc = "return",
                            ![t].ret = Err(IF fault THEN "PermissionDenied"
                                                    ELSE "NotFound")]
            /\ state' = [state EXCEPT !.once[c] = "incomplete"]
            /\ fs' = [fs EXCEPT !.faults = IF fault THEN @ - 1 ELSE @]
       ELSE /\ caller' = [caller EXCEPT ![t].pc = "have_dir", ![t].dir = fd]
            /\ state' = [state EXCEPT !.once[c] = "complete",
                                      !.cell[c] = fd,
                                      !.opened[c] = @ + 1]
            /\ fs' = [fs EXCEPT !.next_fd = @ + 1]
    /\ UNCHANGED <<coreVars, concVars, eintr, lexer>>

\* cached_actions_dir and cached_outputs_dir return the handle.
ComponentReturn(t) ==
    /\ caller[t].pc = "have_dir"
    /\ caller[t].op # "new_scratch_dir"
    /\ caller' = [caller EXCEPT ![t].pc = "return", ![t].ret = Ok(caller[t].dir)]
    /\ UNCHANGED <<coreVars, concVars, eintr, lexer, state, fs>>

\* new_scratch_dir: self.next_scratch_dir.fetch_add(1, SeqCst).
ScratchFetchAdd(t) ==
    /\ caller[t].pc = "have_dir"
    /\ caller[t].op = "new_scratch_dir"
    /\ caller' = [caller EXCEPT ![t].pc = "scratch_mkdirat",
                                ![t].id = state.next_scratch_dir]
    /\ state' = [state EXCEPT
                   !.next_scratch_dir = fetch_add(@),
                   !.taken = Append(@, state.next_scratch_dir)]
    /\ UNCHANGED <<coreVars, concVars, eintr, lexer, fs>>

\* new_scratch_dir: mkdirat(Some(scratches_dir), &path, 0o755)?
ScratchMkdirat(t, fault) ==
    LET id == caller[t].id
        result == mkdirat(id \in DOMAIN fs.scratch, fault)
    IN
    /\ caller[t].pc = "scratch_mkdirat"
    /\ fault => Fault
    /\ fs' = [fs EXCEPT
                !.scratch = IF result = "none" /\ id \notin DOMAIN @
                            THEN Put(@, id, CallOf(t)) ELSE @,
                !.faults = IF fault THEN @ - 1 ELSE @]
    /\ caller' = IF result = "none"
                 THEN [caller EXCEPT ![t].pc = "scratch_openat"]
                 ELSE [caller EXCEPT ![t].pc = "return", ![t].ret = Err(result)]
    /\ UNCHANGED <<coreVars, concVars, eintr, lexer, state>>

\* new_scratch_dir: openat(Some(scratches_dir), &path, O_DIRECTORY | O_PATH, 0)
ScratchOpenat(t, fault) ==
    LET id == caller[t].id IN
    /\ caller[t].pc = "scratch_openat"
    /\ fault => Fault
    /\ IF fault
       THEN /\ caller' = [caller EXCEPT ![t].pc = "return",
                                        ![t].ret = Err("PermissionDenied")]
            /\ fs' = [fs EXCEPT !.faults = @ - 1]
       ELSE /\ caller' = [caller EXCEPT
                            ![t].pc = "return",
                            ![t].ret = Ok([path |-> <<SCRATCHES_DIR, id>>,
                                           fd |-> fs.next_fd])]
            /\ fs' = [fs EXCEPT !.next_fd = @ + 1]
    /\ state' = [state EXCEPT !.made = IF fault THEN @ ELSE Append(@, id)]
    /\ UNCHANGED <<coreVars, concVars, eintr, lexer>>

\* The method returns to the thread.
StateReturn(t) ==
    /\ caller[t].pc = "return"
    /\ caller' = [caller EXCEPT ![t].pc = "idle"]
    /\ UNCHANGED <<coreVars, concVars, eintr, lexer, state, fs>>

(***************************************************************************)
(* sekka: the Lexer.  The input is a sequence of characters; chars, the    *)
(* Peekable<CharIndices>, is the index of the next character (pos).        *)
(***************************************************************************)
\* The characters inputs are made of: whitespace, a one-character token,
\* letters, a digit, the quote and a character no token starts with.
Chars == {" ", "(", "f", "u", "n", "1", "'", "#"}

is_whitespace(c) == c \in {" ", "\t", "\r", "\n"}

Letters == {"a", "b", "c", "d", "e", "f", "g", "h", "i", "j", "k", "l", "m",
            "n", "o", "p", "q", "r", "s", "t", "u", "v", "w", "x", "y", "z",
            "A", "B", "C", "D", "E", "F", "G", "H", "I", "J", "K", "L", "M",
            "N", "O", "P", "Q", "R", "S", "T", "U", "V", "W", "X", "Y", "Z"}
Digits == {"0", "1", "2", "3", "4", "5", "6", "7", "8", "9"}

is_identifier_start(c) == c \in Letters \cup {"_"}

is_identifier_continue(c) == c \in Letters \cup Digits \cup {"_"}

\* Items of the iterator: None, Some(Ok(Lexeme)) with its token and location,
\* Some(Err(error)).
None == [kind |-> "None", text |-> <<>>, offset |-> 0]
OkLexeme(kind, text, offset) == [kind |-> kind, text |-> text, offset |-> offset]
ErrItem(error, text) == [kind |-> error, text |-> text, offset |-> 0]

\* read_whitespace: chars after next_if has taken every leading whitespace.
RECURSIVE read_whitespace(_, _)
read_whitespace(input, pos) ==
    IF pos <= Len(input) /\ is_whitespace(input[pos])
    THEN read_whitespace(input, pos + 1)
    ELSE pos

\* read_identifier: the identifier so far, extended while next_if takes a
\* character that continues it.
RECURSIVE read_identifier(_, _, _)
read_identifier(input, pos, identifier) ==
    IF pos <= Len(input) /\ is_identifier_continue(input[pos])
    THEN read_identifier(input, pos + 1, Append(identifier, input[pos]))
    ELSE [pos |-> pos, identifier |-> identifier]

read_identifier_or_keyword(input, pos, c) ==
    LET r == read_identifier(input, pos, <<c>>) IN
    [pos |-> r.pos,
     token |-> IF r.identifier = <<"f", "u", "n">>
               THEN [kind |-> "FunKeyword", text |-> <<>>]
               ELSE [kind |-> "Identifier", text |-> r.identifier]]

\* read_single_quoted_string_literal: the loop over chars.next().
RECURSIVE read_single_quoted_string_literal(_, _, _)
read_single_quoted_string_literal(input, pos, string) ==
    IF pos > Len(input)
    THEN [pos |-> pos, ok |-> FALSE,
          token |-> [kind |-> "UnterminatedStringLiteral", text |-> <<>>]]
    ELSE IF input[pos] = "'"
    THEN [pos |-> pos + 1, ok |-> TRUE,
          token |-> [kind |-> "StringLiteral", text |-> string]]
    ELSE read_single_quoted_string_literal(input, pos + 1,
                                           Append(string, input[pos]))

\* read_token, c being the character taken and pos the one after it.
read_token(input, pos, c) ==
    LET one(kind) == [pos |-> pos, ok |-> TRUE,
                      token |-> [kind |-> kind, text |-> <<>>]]
    IN
    IF c = "(" THEN one("LeftParenthesis")
    ELSE IF c = ")" THEN one("RightParenthesis")
    ELSE IF c = "+" THEN one("PlusSign")
    ELSE IF c = "~" THEN one("Tilde")
    ELSE IF is_identifier_start(c)
    THEN LET r == read_identifier_or_keyword(input, pos, c) IN
         [pos |-> r.pos, ok |-> TRUE, token |-> r.token]
    ELSE IF c = "'" THEN read_single_quoted_string_literal(input, pos, <<>>)
    ELSE [pos |-> pos, ok |-> FALSE,
          token |-> [kind |-> "InvalidToken", text |-> <<c>>]]

\* Mutant: read_whitespace is not called.
read_lexeme_no_skip(input, pos) ==
    IF pos <= Len(input)
    THEN LET r == read_token(input, pos + 1, input[pos]) IN
         [pos |-> r.pos,
          item |-> IF r.ok THEN OkLexeme(r.token.kind, r.token.text, pos - 1)
                          ELSE ErrItem(r.token.kind, r.token.text)]
    ELSE [pos |-> pos, item |-> None]

\* read_lexeme, which is Iterator::next: where chars is afterwards, and the item.
read_lexeme(input, pos) ==
    LET i == read_whitespace(input, pos) IN
    IF i <= Len(input)
    THEN LET r == read_token(input, i + 1, input[i]) IN
         [pos |-> r.pos,
          item |-> IF r.ok THEN OkLexeme(r.token.kind, r.token.text, i - 1)
                          ELSE ErrItem(r.token.kind, r.token.text)]
    ELSE [pos |-> i, item |-> None]

LexerIdle == [input |-> <<>>, pos |-> 1, items |-> <<>>, last |-> <<>>,
              nones |-> 0]

\* Lexer::new(input).
Lexer_new(input) == [input |-> input, pos |-> 1, items |-> <<>>, last |-> <<>>,
                     nones |-> 0]

\* A call of Lexer::next: last is what it returned, items are the Some items.
LexerNext ==
    /\ lexer.nones <= MaxNones
    /\ LET r == read_lexeme(lexer.input, lexer.pos) IN
       lexer' = [lexer EXCEPT
                   !.pos = r.pos,
                   !.last = <<r.item>>,
                   !.items = IF r.item = None THEN @ ELSE Append(@, r.item),
                   !.nones = IF r.item = None THEN @ + 1 ELSE @]
    /\ UNCHANGED <<coreVars, concVars, eintr, dirVars>>

(***************************************************************************)
(* The heap as Heap::with hands it to its callback: no block, no mutator,  *)
(* no pinned root; the pre-allocated undef exists.                         *)
(***************************************************************************)
NoPinnedRoots ==
    /\ blocks = <<>>
    /\ mutators = {}
    /\ block = <<>>
    /\ nextBlock = 1
    /\ mutator = [m \in MutAddrs |-> NoMutator]
    /\ status = [m \in MutAddrs |-> "none"]
    /\ stack = [m \in MutAddrs |-> <<>>]
    /\ reg = [m \in MutAddrs |-> undef]
    /\ objects = <<>>
    /\ nextObj = 1
    /\ pinLog = <<>>
    /\ fatal = NoFatal
    /\ gc = GcIdle
    /\ mutex = [pinned_roots |-> NoThread, blocks |-> NoThread]
    /\ thread = [t \in Threads |-> ThreadIdle]

\* Every block made here is a default block, whose capacity is
\* DEFAULT_BLOCK_SIZE with every granule there is: the granule is the smallest.
InitHeap ==
    /\ NoPinnedRoots
    /\ heap = [pc |-> "f", dropped |-> 0, granule |-> 1]
    /\ pinned_roots = <<>>

\* No State is open.
DirIdle ==
    /\ state = State_open
    /\ fs = [components |-> {}, scratch |-> <<>>, faults |-> 0, next_fd |-> 1]
    /\ caller = [t \in Callers |-> CallerIdle]

\* Nothing but the heap is in use.
Init ==
    /\ InitHeap
    /\ eintr = RetryIdle
    /\ DirIdle
    /\ lexer = LexerIdle

\* The heap with a memory source of any granule, for the calls that make ad-hoc
\* blocks.
InitAlloc ==
    /\ NoPinnedRoots
    /\ \E g \in Granules : heap = [pc |-> "f", dropped |-> 0, granule |-> g]
    /\ pinned_roots = <<>>
    /\ eintr = RetryIdle
    /\ DirIdle
    /\ lexer = LexerIdle

\* A heap in which some objects have no pinned root and others have all the
\* pinned roots there can be but one.
InitPinCalls ==
    /\ NoPinnedRoots
    /\ heap = [pc |-> "f", dropped |-> 0, granule |-> 1]
    /\ \E S \in SUBSET PinAddrs :
          pinned_roots = [object \in S |-> minus_one(COUNT_MAX)]
    /\ eintr = RetryIdle
    /\ DirIdle
    /\ lexer = LexerIdle

\* retry_on_eintr is called with an f that gives any list of results.
InitRetry ==
    /\ InitHeap
    /\ \E n \in 1 .. MaxResults :
          \E results \in [1 .. n -> FResults] :
              eintr = [results |-> results, calls |-> 0, pc |-> "loop",
                       ret |-> "none"]
    /\ DirIdle
    /\ lexer = LexerIdle

\* State::open has returned a State for a state directory that is new, or that
\* an earlier run left: with the scratches directory and perhaps a scratch
\* directory in it, or with the output cache.
InitState ==
    /\ InitHeap
    /\ eintr = RetryIdle
    /\ lexer = LexerIdle
    /\ state = State_open
    /\ caller = [t \in Callers |-> CallerIdle]
    /\ \E components \in SUBSET {SCRATCHES_DIR, CACHED_OUTPUTS_DIR} :
          \E left \in {{}, {u32(1)}} :
              /\ left # {} => SCRATCHES_DIR \in components
              /\ fs = [components |-> components,
                       scratch |-> [n \in left |-> NoCall],
                       faults |-> MaxFaults, next_fd |-> 1]

\* A State on which new_scratch_dir has been called u32::MAX times: the
\* scratches directory is open and the counter is at its last value.
State_used ==
    [State_open EXCEPT
        !.cell[SCRATCHES_DIR] = [path |-> <<SCRATCHES_DIR>>, fd |-> 1],
        !.once[SCRATCHES_DIR] = "complete",
        !.opened[SCRATCHES_DIR] = 1,
        !.next_scratch_dir = U32_MAX]

\* State::open has returned a State for a state directory in which an earlier
\* run has left scratches/1; or the State has handed out every number but the
\* last, and scratches/0, which the first of these calls made, is still there.
InitScratch ==
    /\ InitHeap
    /\ eintr = RetryIdle
    /\ lexer = LexerIdle
    /\ caller = [t \in Callers |-> CallerIdle]
    /\ \/ /\ state = State_open
          /\ fs = [components |-> {SCRATCHES_DIR},
                   scratch |-> [n \in {u32(1)} |-> NoCall],
                   faults |-> MaxFaults, next_fd |-> 1]
       \/ /\ state = State_used
          /\ fs = [components |-> {SCRATCHES_DIR},
                   scratch |-> [n \in {u32(0)} |-> NoCall],
                   faults |-> MaxFaults, next_fd |-> 2]

\* A Lexer is made for any input.
InitLexer ==
    /\ InitHeap
    /\ eintr = RetryIdle
    /\ DirIdle
    /\ \E n \in 0 .. MaxInput :
          \E input \in [1 .. n -> Chars] : lexer = Lexer_new(input)

\* Size of the objects allocated where the size does not matter.
ObjectSize == OBJECT_ALIGN

\* Mutators coming and going, and allocation on all three paths.
NextAlloc ==
    \E m \in MutAddrs :
        \/ MutatorNew(m)
        \/ \E size \in AllocSizes : Alloc(m, size)
        \/ Caught(m)
        \/ MutatorDropAddBlock(m)
        \/ MutatorDropUnregister(m)

SpecAlloc == InitAlloc /\ [][NextAlloc]_vars

\* The root stacks of the mutators; the calls are made outside and inside
\* safe_point_with regions.
NextRoots ==
    \E m \in 1 .. MaxRootMutators :
        \/ MutatorNew(m)
        \/ Alloc(m, ObjectSize)
        \/ \E n \in 0 .. MaxBatch : WithStackRoots(m, n)
        \/ WithPinnedStackRoot(m)
        \/ SafePointWithCall(m)
        \/ SafePointWithReturn(m)
        \/ Return(m)
        \/ Panic(m)
        \/ Unwind(m)
        \/ Caught(m)
        \/ MutatorDropAddBlock(m)
        \/ MutatorDropUnregister(m)

SpecRoots == Init /\ [][NextRoots]_vars

\* Pinned roots.
NextPins ==
    \/ \E m \in MutAddrs :
        \/ MutatorNew(m)
        \/ Alloc(m, ObjectSize)
        \/ PinnedRootNew(m)
    \/ \E r \in DOMAIN pinLog :
        \/ PinnedRootClone(r)
        \/ PinnedRootDrop(r)

SpecPins == Init /\ [][NextPins]_vars

\* A mutator with stack roots, and the collector.
NextGc ==
    \/ \E m \in 1 .. MaxRootMutators :
        \/ MutatorNew(m)
        \/ nextObj <= MaxObjects /\ Alloc(m, ObjectSize)
        \/ \E n \in 1 .. MaxBatch : WithStackRoots(m, n)
        \/ Return(m)
        \/ \E i \in 1 .. MaxDepth, k \in 1 .. MaxBatch :
            \/ StackRootSet(m, i, k)
            \/ StackRootGet(m, i, k)
            \/ StoreRef(m, i, k)
        \/ SafePoint(m)
        \/ SafePointWithCall(m)
        \/ SafePointWithReturn(m)
    \/ GcRequest
    \/ GcStop
    \/ GcSnapshot
    \/ GcTrace
    \/ \E Moved \in SUBSET Movable : GcCompact(Moved)
    \/ GcResume

SpecGc == Init /\ [][NextGc]_vars

\* A mutator with stack roots and pinned roots, and the collector.
NextGcPins ==
    \/ \E m \in 1 .. MaxRootMutators :
        \/ MutatorNew(m)
        \/ nextObj <= MaxObjects /\ Alloc(m, ObjectSize)
        \/ \E n \in 1 .. MaxBatch : WithStackRoots(m, n)
        \/ WithPinnedStackRoot(m)
        \/ Return(m)
        \/ \E i \in 1 .. MaxDepth, k \in 1 .. MaxBatch : StackRootSet(m, i, k)
        \/ SafePointWithCall(m)
        \/ SafePointWithReturn(m)
        \/ PinOps < MaxGcPinOps /\ PinnedRootNew(m)
    \/ \E r \in DOMAIN pinLog : PinnedRootDrop(r)
    \/ GcRequest
    \/ GcStop
    \/ GcSnapshot
    \/ GcTrace
    \/ \E Moved \in SUBSET Movable : GcCompact(Moved)
    \/ GcResume

SpecGcPins == Init /\ [][NextGcPins]_vars

\* The two functions that maintain the pinned multiset, called in any order.
NextPinCalls ==
    \E object \in PinAddrs :
        \/ HeapRetain(object)
        \/ HeapRelease(object)

SpecPinCalls == InitPinCalls /\ [][NextPinCalls]_vars

\* Heap::with from the call of f to the drop of the heap: f makes, uses, drops
\* and leaks mutators; while a panic unwinds, mutators are dropped and no more.
NextWith ==
    \/ \E m \in MutAddrs :
        \/ heap.pc = "f" /\ MutatorNew(m)
        \/ heap.pc = "f" /\ Alloc(m, ObjectSize)
        \/ heap.pc = "f" /\ MutatorForget(m)
        \/ heap.pc \in {"f", "unwinding"} /\ MutatorDropAddBlock(m)
        \/ heap.pc \in {"f", "unwinding"} /\ MutatorDropUnregister(m)
    \/ WithReturn
    \/ WithPanic
    \/ WithUnwound

SpecWith == Init /\ [][NextWith]_vars

\* Threads that make, clone and drop PinnedRoots and hand blocks to the heap.
NextThreads ==
    \E t \in Threads :
        \/ \E op \in {"new", "clone", "drop"}, object \in SharedAddrs :
              ThreadPinCall(t, op, object)
        \/ ThreadAddBlockCall(t)
        \/ ThreadLock(t)
        \/ ThreadUnlock(t)

SpecThreads == Init /\ [][NextThreads]_vars

\* retry_on_eintr runs; the thread that runs it is scheduled again and again.
NextRetry == RetryLoop

SpecRetry == InitRetry /\ [][NextRetry]_vars /\ WF_vars(NextRetry)

\* Threads that share a State make scratch directories and use the output cache.
NextState ==
    \E t \in Callers :
        \/ \E op \in {"new_scratch_dir", "cached_outputs_dir"} : StateCall(t, op)
        \/ CellGet(t)
        \/ CellOnce(t)
        \/ \E fault \in BOOLEAN : CellMkdirat(t, fault)
        \/ \E fault \in BOOLEAN : CellOpenat(t, fault)
        \/ ComponentReturn(t)
        \/ ScratchFetchAdd(t)
        \/ \E fault \in BOOLEAN : ScratchMkdirat(t, fault)
        \/ \E fault \in BOOLEAN : ScratchOpenat(t, fault)
        \/ StateReturn(t)

SpecState == InitState /\ [][NextState]_vars

\* Threads that share a State make scratch directories, also after the counter
\* has come to its last value.
NextScratch ==
    \E t \in Callers :
        \/ StateCall(t, "new_scratch_dir")
        \/ CellGet(t)
        \/ CellOnce(t)
        \/ \E fault \in BOOLEAN : CellMkdirat(t, fault)
        \/ \E fault \in BOOLEAN : CellOpenat(t, fault)
        \/ ScratchFetchAdd(t)
        \/ \E fault \in BOOLEAN : ScratchMkdirat(t, fault)
        \/ \E fault \in BOOLEAN : ScratchOpenat(t, fault)
        \/ StateReturn(t)

SpecScratch == InitScratch /\ [][NextScratch]_vars

\* The Lexer is iterated, also beyond its first None.
NextLexer == LexerNext

SpecLexer == InitLexer /\ [][NextLexer]_vars

(***************************************************************************)
(* Claims.                                                                 *)
(***************************************************************************)
Refs == DOMAIN pinLog \cup DOMAIN pinned_roots

\* C1 (refcount law): for every object the count in the heap's pinned_roots map
\* equals constructions + clones - destructions of PinnedRoots on it, the entry is
\* absent exactly when that number is zero, and a present count is positive.
C1_RefcountLaw ==
    /\ \A r \in Refs :
        /\ Count(pinned_roots, r) = u64(Pins(r).new + Pins(r).clone - Pins(r).drop)
        /\ (r \notin DOMAIN pinned_roots) <=> (LivePinnedRoots(r) = 0)
    /\ \A r \in DOMAIN pinned_roots : pinned_roots[r] # u64(0)

\* One object has been pinned, cloned and released once and is still pinned;
\* another has been pinned and released and has no entry.
C1_Witness ==
    \E r1, r2 \in DOMAIN pinLog :
        /\ Pins(r1).clone > 0 /\ Pins(r1).drop > 0 /\ r1 \in DOMAIN pinned_roots
        /\ Pins(r2).new > 0 /\ r2 \notin DOMAIN pinned_roots

\* C2 (pinning): every object a live PinnedRoot or PinnedStackRoot referred to
\* when the cycle took its root snapshot is, once the cycle has compacted, still
\* the object at that address: it was neither moved nor reclaimed.
C2_Pinning ==
    gc.phase = "compacted" =>
        \A p \in gc.pinnedAt :
            p.addr # UndefAddr =>
                /\ p.addr \in DOMAIN objects
                /\ objects[p.addr].id = p.id
                /\ p.addr \notin gc.moved

\* A cycle has compacted while the mutator was inside safe_point_with inside
\* with_pinned_stack_root: one object is pinned by that call, another by a
\* PinnedRoot, and a third object has been reclaimed.
C2_Witness ==
    /\ gc.phase = "compacted"
    /\ gc.reclaimed # {}
    /\ \E m \in mutators :
        /\ Len(stack[m]) = 2
        /\ InSafePoint(m)
        /\ stack[m][1].kind = "with_pinned_stack_root"
        /\ stack[m][1].root \in gc.pinnedAt
        /\ \E p \in gc.pinnedAt :
            /\ p.addr \in DOMAIN pinned_roots
            /\ p.addr \notin {UndefAddr, stack[m][1].root.addr}

\* The roots the collector would read now.
CurrentRoots == CollectorStackRoots \cup CollectorPinned

\* The object with identity id exists after the step.
Survives(id) == \E x \in DOMAIN objects' : objects'[x].id = id

\* C3 (root rewrite): once a cycle has completed, every StackRoot of a registered
\* batch holds the address at which the object it was set to lives.
C3_RootRewrite ==
    gc.done > 0 =>
        \A m \in mutators : \A sl \in BatchSlots(m) :
            LET r == stack[m][sl[1]].batch[sl[2]] IN
            r.addr # UndefAddr =>
                /\ r.addr \in DOMAIN objects
                /\ objects[r.addr].id = r.id

\* C4 (reachability): the compaction step keeps every object that is reachable
\* from a root through out-references and reclaims every object that is not.
C4_Reachability ==
    [][(gc.phase = "traced" /\ gc'.phase = "compacted") =>
          \A a \in DOMAIN objects :
              Survives(objects[a].id) <=> a \in Reach(CurrentRoots)]_vars

\* C5 (stop-the-world): while the world is stopped for the root snapshot, the
\* trace and the compaction, every registered mutator is in safe-point state.
C5_StopTheWorld ==
    gc.phase \in {"stopped", "snapshot", "traced"} =>
        \A m \in mutators : InSafePoint(m)

\* C6 (safe_point): a call of safe_point made while cycle c was requested has
\* returned only once c cycles have completed.
C6_SafePointBlocks ==
    \A m \in MutAddrs : gc.sp[m].done >= gc.sp[m].cycle

\* C7 (safe_point_with): safe_point_with returns to its caller only while no
\* cycle is in progress.
C7_SafePointWithBlocks ==
    [][\A m \in MutAddrs :
          SafePointWithReturn(m) => gc.phase \in {"idle", "requested"}]_vars

\* The mutator owns its Vecs' entries: the value of both stacks.
RootStacks(m) == <<mutator[m].stack_root_batches, mutator[m].pinned_stack_roots>>

\* C8 (LIFO discipline): whenever a with_stack_roots or with_pinned_stack_root
\* call ends, by return or by unwinding, stack_root_batches and
\* pinned_stack_roots are what they were just before the call; both are empty
\* while no such call is active on the mutator.
C8_LifoDiscipline ==
    /\ [](\A m \in MutAddrs :
            stack[m] = <<>> => RootStacks(m) = <<(<<>>), (<<>>)>>)
    /\ [][\A m \in MutAddrs :
            Len(stack'[m]) < Len(stack[m]) =>
                <<mutator'[m].stack_root_batches,
                  mutator'[m].pinned_stack_roots>> = Top(m).pre]_vars

\* A panic has unwound every active call of a mutator that has allocated.
C8_Witness ==
    \E m \in MutAddrs :
        /\ status[m] = "unwinding"
        /\ stack[m] = <<>>
        /\ block[mutator[m].allocator].cursor > 0

\* The mutators whose box exists.
LiveMutators == {m \in MutAddrs : status[m] # "none"}

\* C9 (mutator registry): the registry holds exactly the live mutators.
C9_Registry == mutators = LiveMutators

\* One mutator has been created and dropped, another is registered.
C9_Witness ==
    /\ \E i \in DOMAIN blocks : block[blocks[i]].cursor = 0
    /\ \E m1, m2 \in MutAddrs : status[m1] = "none" /\ mutators = {m2}

\* The mutators that own their allocator block.
OwningMutators(b) ==
    {m \in MutAddrs : status[m] \in {"running", "unwinding"}
                      /\ mutator[m].allocator = b}

\* C10 (block ownership): every block is the allocator of exactly one mutator or
\* occurs exactly once in the heap's block list, never both and never neither; the
\* allocator of a mutator being dropped is in the heap's block list.
C10_BlockOwnership ==
    /\ \A b \in DOMAIN block :
        Cardinality(OwningMutators(b)) + Occurrences(blocks, b) = 1
    /\ \A m \in MutAddrs :
        status[m] = "dropping" => Occurrences(blocks, mutator[m].allocator) = 1

\* A block was retired by the slow path, an oversize block was created, and a
\* mutator was dropped.
C10_Witness ==
    /\ Len(blocks) = 3
    /\ \E i \in DOMAIN blocks : block[blocks[i]].capacity > DEFAULT_BLOCK_SIZE
    /\ \E i \in DOMAIN blocks : block[blocks[i]].capacity = DEFAULT_BLOCK_SIZE
                                /\ block[blocks[i]].cursor = DEFAULT_BLOCK_SIZE
    /\ \E m \in MutAddrs : status[m] = "dropping"

\* C11 (allocation alignment and disjointness): with no collection so far, every
\* allocation made on the heap still has an address of its own, the address is
\* aligned to the object alignment, its bytes lie inside its block, and the byte
\* ranges of two allocations in one block do not overlap.
C11_AllocDisjoint ==
    /\ \A i \in 1 .. (nextObj - 1) : \E a \in DOMAIN objects : objects[a].id = i
    /\ \A a \in DOMAIN objects :
        /\ a[2] % OBJECT_ALIGN = 0
        /\ a[1] \in DOMAIN block
        /\ a[2] + objects[a].size <= block[a[1]].capacity
    /\ \A a, b \in DOMAIN objects :
        (a # b /\ a[1] = b[1]) =>
            \/ a[2] + objects[a].size <= b[2]
            \/ b[2] + objects[b].size <= a[2]

\* Two mutators have allocated: two objects share a block, one of them of a size
\* that is not a multiple of the alignment, another object lies in a block of
\* default size that the heap owns and another in an oversize block.
C11_Witness ==
    /\ \E a, b \in DOMAIN objects :
        /\ a # b /\ a[1] = b[1]
        /\ objects[a].size % OBJECT_ALIGN # 0
    /\ \E a \in DOMAIN objects : objects[a].size > DEFAULT_BLOCK_SIZE
    /\ \E a \in DOMAIN objects, i \in DOMAIN blocks :
        a[1] = blocks[i] /\ block[a[1]].capacity = DEFAULT_BLOCK_SIZE
    /\ \E m1, m2 \in MutAddrs :
        /\ m1 # m2
        /\ \E a, b \in DOMAIN objects :
            a[1] = mutator[m1].allocator /\ b[1] = mutator[m2].allocator

\* C12 (oversize allocation): a call alloc(size) with size > DEFAULT_BLOCK_SIZE
\* returns the address of the start of a new block made for that size, which it
\* has appended to the heap's block list; a call with size = DEFAULT_BLOCK_SIZE
\* places the object in the mutator's allocator instead.  Whether the call
\* returns depends on the granule: with a granule that is a multiple of the
\* object alignment it does for every size, with the granule of one byte it does
\* not for a size that is not a multiple of the alignment.
C12_Oversize ==
    [][\A m \in MutAddrs : \A size \in AllocSizes :
          Alloc(m, size) =>
              IF size > DEFAULT_BLOCK_SIZE
              THEN /\ status'[m] = "running"
                   /\ blocks' = Append(blocks, nextBlock)
                   /\ block'[nextBlock].capacity = Block_with_capacity(size).capacity
                   /\ reg'[m].addr = <<nextBlock, 0>>
              ELSE size = DEFAULT_BLOCK_SIZE =>
                       /\ status'[m] = "running"
                       /\ reg'[m].addr[1] = mutator'[m].allocator]_vars

\* C13 (scenario S4): a call alloc(DEFAULT_BLOCK_SIZE + 1) returns, a block
\* made for that size has then been appended to the heap's block list, and every
\* small allocation the mutator makes next succeeds in a block other than that
\* one.  DEFAULT_BLOCK_SIZE + 1 is not a multiple of the object alignment: the
\* call returns if the granule is a multiple of the alignment, and not otherwise.
C13_ScenarioS4 ==
    [][\A m \in MutAddrs :
          Alloc(m, DEFAULT_BLOCK_SIZE + 1) =>
              /\ status'[m] = "running"
              /\ blocks' = Append(blocks, nextBlock)
              /\ block'[nextBlock].capacity =
                     Block_with_capacity(DEFAULT_BLOCK_SIZE + 1).capacity
              /\ \A size \in 1 .. DEFAULT_BLOCK_SIZE :
                  /\ (alloc(m, size).ok)'
                  /\ (alloc(m, size).ptr[1])' # nextBlock]_vars

\* C14 (small allocation): a call alloc(size) with size <= DEFAULT_BLOCK_SIZE
\* places the object at the cursor of the mutator's allocator and leaves the
\* heap's block list alone if the rounded size fits there; otherwise it appends
\* the old allocator, unchanged, to the heap's block list, makes a new block of
\* default size the allocator and places the object at the start of that block.
C14_SmallAlloc ==
    [][\A m \in MutAddrs : \A size \in 1 .. DEFAULT_BLOCK_SIZE :
          Alloc(m, size) =>
              LET a == mutator[m].allocator IN
              /\ status'[m] = "running"
              /\ IF block[a].cursor + RoundUp(size) <= block[a].capacity
                 THEN /\ reg'[m].addr = <<a, block[a].cursor>>
                      /\ block'[a].cursor = block[a].cursor + RoundUp(size)
                      /\ mutator'[m].allocator = a
                      /\ blocks' = blocks
                 ELSE /\ reg'[m].addr = <<nextBlock, 0>>
                      /\ block'[nextBlock].capacity = DEFAULT_BLOCK_SIZE
                      /\ block'[nextBlock].cursor = RoundUp(size)
                      /\ mutator'[m].allocator = nextBlock
                      /\ blocks' = Append(blocks, a)
                      /\ block'[a] = block[a]]_vars

\* A mutator has allocated on both paths: its first allocator, partly filled,
\* was retired to the heap, and its present allocator holds the object that did
\* not fit and a later one.
C14_Witness ==
    \E m \in MutAddrs :
        /\ status[m] = "running"
        /\ blocks # <<>>
        /\ block[blocks[1]].capacity = DEFAULT_BLOCK_SIZE
        /\ block[blocks[1]].cursor \in 1 .. (DEFAULT_BLOCK_SIZE - 1)
        /\ mutator[m].allocator > blocks[1]
        /\ <<mutator[m].allocator, 0>> \in DOMAIN objects
        /\ \E a \in DOMAIN objects : a[1] = mutator[m].allocator /\ a[2] > 0

\* C15 (Heap::with): the heap is dropped exactly once, when f has returned or its
\* panic has left the call, and the mutator registry is empty when it is dropped.
C15_HeapWith ==
    /\ heap.dropped = (IF heap.pc \in {"returned", "panicked"} THEN 1 ELSE 0)
    /\ heap.dropped > 0 => mutators = {}

\* C17 (pinned-root overflow): a retain for an object whose count is the largest
\* representable one is a fatal error and leaves the multiset as it was; any other
\* retain raises the count by one, so a count never wraps around.
C17_PinnedOverflow ==
    [][\A object \in PinAddrs :
          (fatal = NoFatal /\ HeapRetain(object)) =>
              IF Count(pinned_roots, object) = COUNT_MAX
              THEN /\ fatal' = Poison("Too many pinned roots for object", "pinned_roots")
                   /\ pinned_roots' = pinned_roots
              ELSE /\ fatal' = NoFatal
                   /\ pinned_roots' =
                          Put(pinned_roots, object,
                              wrapping_add(Count(pinned_roots, object)))
                   /\ pinned_roots'[object] # u64(0)]_vars

\* A retain has failed on an object whose count is the largest one, while another
\* object is pinned too.
C17_Witness ==
    /\ fatal.msg = "Too many pinned roots for object"
    /\ \E o1, o2 \in DOMAIN pinned_roots :
        o1 # o2 /\ pinned_roots[o1] = COUNT_MAX

\* The count of the object goes down by one, and the entry whose count was one
\* is removed; no panic is raised.
Released(object) ==
    /\ fatal' = fatal
    /\ pinned_roots' =
           IF pinned_roots[object] = u64(1)
           THEN Remove(pinned_roots, object)
           ELSE Put(pinned_roots, object, minus_one(pinned_roots[object]))

C19_StackRootBatch ==
    /\ [][\A m \in MutAddrs : \A n \in 0 .. MaxBatch :
            WithStackRoots(m, n) =>
                /\ Last(stack'[m]).batch = [i \in 1 .. n |-> undef]
                /\ mutator'[m].stack_root_batches =
                       Append(mutator[m].stack_root_batches,
                              [ptr |-> Len(stack'[m]), len |-> n])]_vars
    /\ [](\A m \in MutAddrs :
            LET batches == mutator[m].stack_root_batches
                calls == {i \in DOMAIN stack[m] :
                             stack[m][i].kind = "with_stack_roots"}
            IN /\ Len(batches) = Cardinality(calls)
               /\ \A j \in DOMAIN batches :
                   /\ batches[j].ptr \in calls
                   /\ batches[j].len = Len(stack[m][batches[j].ptr].batch)
                   /\ \A k \in DOMAIN batches :
                       j < k => batches[j].ptr < batches[k].ptr)

\* with_stack_roots::<1> is active inside with_stack_roots::<0>.
C19_Witness ==
    \E m \in MutAddrs :
        /\ status[m] = "running"
        /\ Len(stack[m]) = 2
        /\ stack[m][1].kind = "with_stack_roots" /\ Len(stack[m][1].batch) = 0
        /\ stack[m][2].kind = "with_stack_roots" /\ Len(stack[m][2].batch) = 1
        /\ stack[m][2].batch[1] = undef

\* C20 (with_pinned_stack_root): with_pinned_stack_root(obj, f) gives f a
\* PinnedStackRoot that refers to obj; until the call has run its scope_exit!
\* block, whatever calls are nested inside f, obj is an element of the mutator's
\* pinned_stack_roots and the PinnedStackRoot of the call still refers to obj.
C20_PinnedStackRoot ==
    /\ [][\A m \in MutAddrs :
            /\ WithPinnedStackRoot(m) =>
                   /\ Last(stack'[m]).root = reg[m]
                   /\ Last(mutator'[m].pinned_stack_roots) = reg[m].addr
            /\ \A i \in DOMAIN stack[m] \cap DOMAIN stack'[m] :
                   stack[m][i].kind = "with_pinned_stack_root" =>
                       stack'[m][i] = stack[m][i]]_vars
    /\ [](\A m \in MutAddrs : \A i \in DOMAIN stack[m] :
            stack[m][i].kind = "with_pinned_stack_root" =>
                /\ IsObject(stack[m][i].root)
                /\ Occurrences(mutator[m].pinned_stack_roots,
                               stack[m][i].root.addr) > 0)

\* with_pinned_stack_root of one object is active inside with_pinned_stack_root
\* of another object.
C20_Witness ==
    \E m \in MutAddrs :
        /\ status[m] = "running"
        /\ Len(stack[m]) = 2
        /\ stack[m][1].kind = "with_pinned_stack_root"
        /\ stack[m][2].kind = "with_pinned_stack_root"
        /\ stack[m][1].root # stack[m][2].root
        /\ mutator[m].pinned_stack_roots =
               <<stack[m][1].root.addr, stack[m][2].root.addr>>

\* C25 (block bump cursor): the cursor of a block is at most its capacity; no
\* step changes the capacity of a block or moves its cursor back; an alloc that
\* is served by the allocator block moves that block's cursor on by the size
\* rounded up to the object alignment, and an alloc for which the allocator's
\* try_alloc returns none leaves that block as it was.
C25_BumpCursor ==
    /\ [](\A b \in DOMAIN block : block[b].cursor <= block[b].capacity)
    /\ [][\A b \in DOMAIN block \cap DOMAIN block' :
            /\ block'[b].capacity = block[b].capacity
            /\ block'[b].cursor >= block[b].cursor]_vars
    /\ [][\A m \in MutAddrs : \A size \in 1 .. DEFAULT_BLOCK_SIZE :
            Alloc(m, size) =>
                LET a == mutator[m].allocator
                    rounded == ((size + OBJECT_ALIGN - 1) \div OBJECT_ALIGN)
                                   * OBJECT_ALIGN
                IN IF mutator'[m].allocator = a
                   THEN /\ reg'[m].addr = <<a, block[a].cursor>>
                        /\ block'[a].cursor = block[a].cursor + rounded
                   ELSE /\ block[a].cursor + rounded > block[a].capacity
                        /\ block'[a] = block[a]]_vars

\* A block was retired with room left that was too small for the next object,
\* and the block that replaced it is full after an object of odd size.
C25_Witness ==
    \E m \in MutAddrs : \E b \in DOMAIN block :
        /\ status[m] = "running"
        /\ Occurrences(blocks, b) = 1
        /\ block[b].cursor > 0
        /\ block[b].cursor < block[b].capacity
        /\ LET a == mutator[m].allocator IN
           /\ block[a].cursor = block[a].capacity
           /\ <<a, 0>> \in DOMAIN objects
           /\ objects[<<a, 0>>].size = DEFAULT_BLOCK_SIZE - 1

\* C27 (sufficient space): every call of alloc returns an address, whatever
\* the size: the try_alloc on a block made for the call never returns none.
\* This is so if the granule is a multiple of the object alignment, and not if
\* it is one byte.
C27_SufficientSpace ==
    [][\A m \in MutAddrs : \A size \in AllocSizes :
          Alloc(m, size) => /\ status'[m] = "running"
                            /\ reg'[m].addr \in DOMAIN objects']_vars

\* C28 (frame of an oversize alloc): an alloc of more than DEFAULT_BLOCK_SIZE
\* appends one block to the heap's blocks and leaves the Mutator struct (its
\* allocator and root stacks), the allocator block, the registry and the pinned
\* roots as they were, so that a small alloc is served from the same block at
\* the same place as it would have been before.  The block is appended if the
\* call returns, which depends on the granule as in C27.
C28_OversizeFrame ==
    [][\A m \in MutAddrs : \A size \in AllocSizes :
          (size > DEFAULT_BLOCK_SIZE /\ Alloc(m, size)) =>
              /\ Len(blocks') = Len(blocks) + 1
              /\ Front(blocks') = blocks
              /\ DOMAIN block' = DOMAIN block \cup {Last(blocks')}
              /\ \A b \in DOMAIN block : block'[b] = block[b]
              /\ mutator' = mutator
              /\ mutators' = mutators
              /\ pinned_roots' = pinned_roots
              /\ \A small \in 1 .. DEFAULT_BLOCK_SIZE :
                     /\ alloc_small_fast(m, small).some' =
                            alloc_small_fast(m, small).some
                     /\ alloc_small_fast(m, small).ptr' =
                            alloc_small_fast(m, small).ptr]_vars

\* The active with_pinned_stack_root calls of mutator m that pin address a.
PinningCalls(m, a) ==
    {i \in DOMAIN stack[m] : /\ stack[m][i].kind = "with_pinned_stack_root"
                             /\ stack[m][i].root.addr = a}

\* C29 (nesting): a with_stack_roots or with_pinned_stack_root call made inside
\* the callback of another one does not fail, neither RefCell being borrowed
\* while a callback runs; an object has as many entries in pinned_stack_roots
\* as there are active with_pinned_stack_root calls on it, so it stays there
\* until the outermost of them ends; and the end of a with_pinned_stack_root
\* call removes the last entry, the one that call pushed, and no other.
C29_Nesting ==
    /\ [](\A m \in MutAddrs : mutator[m].borrowed = {})
    /\ [][\A m \in MutAddrs :
            /\ (\E n \in 0 .. MaxBatch : WithStackRoots(m, n)) =>
                   status'[m] = "running" /\ Len(stack'[m]) = Len(stack[m]) + 1
            /\ WithPinnedStackRoot(m) =>
                   status'[m] = "running" /\ Len(stack'[m]) = Len(stack[m]) + 1
            /\ (/\ Len(stack'[m]) < Len(stack[m])
                /\ Top(m).kind = "with_pinned_stack_root") =>
                   /\ Last(mutator[m].pinned_stack_roots) = Top(m).root.addr
                   /\ mutator'[m].pinned_stack_roots =
                          Front(mutator[m].pinned_stack_roots)]_vars
    /\ [](\A m \in MutAddrs : \A a \in DOMAIN objects \cup {UndefAddr} :
            Occurrences(mutator[m].pinned_stack_roots, a) =
                Cardinality(PinningCalls(m, a)))

\* with_pinned_stack_root of an object is active inside with_pinned_stack_root
\* of the same object, which has two entries.
C29_Witness ==
    \E m \in MutAddrs :
        /\ status[m] = "running"
        /\ Len(stack[m]) = 2
        /\ stack[m][1].kind = "with_pinned_stack_root"
        /\ stack[m][2].kind = "with_pinned_stack_root"
        /\ stack[m][2].root = stack[m][1].root
        /\ stack[m][1].root # undef
        /\ Occurrences(mutator[m].pinned_stack_roots, stack[m][1].root.addr) = 2

\* No thread is inside a call into the heap.
Quiescent == \A t \in Threads : thread[t].pc = "idle"

\* C26 (serialized updates): at most one thread at a time is inside the
\* critical section of a collection; each retain, release and add_block is
\* applied to the collection as it is when the call returns, so none overwrites
\* another; and whenever no call is in progress the count of each object is the
\* number of its PinnedRoots alive, an object without one has no entry, and
\* every block handed to add_block is in the heap's blocks exactly once.
C26_Serialized ==
    /\ [](\A t1, t2 \in Threads :
            (/\ t1 # t2
             /\ thread[t1].pc = "locked"
             /\ thread[t2].pc = "locked") =>
                MutexOf(thread[t1].op) # MutexOf(thread[t2].op))
    /\ [][\A t \in Threads :
            ThreadUnlock(t) =>
                LET op == thread[t].op
                    object == thread[t].object
                IN IF op = "add_block"
                   THEN blocks' = Append(blocks, object[1])
                   ELSE IF op = "drop"
                   THEN pinned_roots' = release_pinned_root(pinned_roots, object).map
                   ELSE pinned_roots' = retain_pinned_root(pinned_roots, object).map]_vars
    /\ [](Quiescent =>
            /\ \A object \in SharedAddrs :
                /\ Count(pinned_roots, object) = u64(LivePinnedRoots(object))
                /\ object \in DOMAIN pinned_roots => pinned_roots[object] # u64(0)
            /\ \A b \in DOMAIN block : Occurrences(blocks, b) = 1)

\* Two threads are in PinnedRoot::new and Clone for the same object, one of them
\* inside the critical section and the other at the lock; a PinnedRoot of that
\* object has been dropped before, another object is pinned, and the heap has
\* been given a block.
C26_Witness ==
    \E t1, t2 \in Threads : \E o \in SharedAddrs :
        /\ thread[t1].pc = "locked" /\ thread[t1].op = "clone"
        /\ thread[t2].pc = "call" /\ thread[t2].op = "new"
        /\ thread[t1].object = o /\ thread[t2].object = o
        /\ Pins(o).drop > 0
        /\ \E o2 \in DOMAIN pinned_roots : o2 # o
        /\ blocks # <<>>

\* C24 (retry_on_eintr): as long as every result of f so far was Interrupted,
\* retry_on_eintr goes on calling f; what it returns is the result of the last
\* call of f, which is the first result that is not Interrupted, so it never
\* returns Interrupted; once it has returned f is not called again; and if some
\* result of f is not Interrupted, retry_on_eintr returns.
C24_RetryOnEintr ==
    /\ [](eintr.pc = "loop" =>
            /\ eintr.ret = "none"
            /\ \A k \in 1 .. eintr.calls : FResult(k) = "Interrupted")
    /\ [](eintr.pc = "returned" =>
            /\ eintr.ret # "Interrupted"
            /\ eintr.ret = FResult(eintr.calls)
            /\ \A k \in 1 .. (eintr.calls - 1) : FResult(k) = "Interrupted")
    /\ [][eintr.pc = "returned" => eintr' = eintr]_vars
    /\ ((\E k \in DOMAIN eintr.results : eintr.results[k] # "Interrupted")
            ~> eintr.pc = "returned")

\* f was interrupted twice and then failed with another error, which is what
\* retry_on_eintr returned after three calls.
C24_Witness ==
    /\ eintr.pc = "returned"
    /\ eintr.results = <<"Interrupted", "Interrupted", "NotFound">>
    /\ eintr.calls = 3
    /\ eintr.ret = "NotFound"

\* C21 (scratch directory numbers): the numbers next_scratch_dir hands out are
\* 0, 1, 2, ... in the order of the fetch_add calls (every run here has fewer
\* than 2^32 of them), so that no two calls, on whatever threads, get the same
\* one; a call that returns Ok has created and
\* opened the directory scratches/<its number>; and when one thread makes the
\* calls and each of them has returned Ok, they made scratches/0, scratches/1,
\* ... in call order.
C21_ScratchNumbers ==
    /\ [](\A i \in DOMAIN state.taken : state.taken[i] = u32(i - 1))
    /\ [](\A i, j \in DOMAIN state.made : i # j => state.made[i] # state.made[j])
    /\ [](\A t \in Callers :
            (caller[t].op = "new_scratch_dir" /\ caller[t].ret.ok) =>
                /\ caller[t].ret.fd.path = <<SCRATCHES_DIR, caller[t].id>>
                /\ caller[t].id \in DOMAIN fs.scratch
                /\ SCRATCHES_DIR \in fs.components)
    /\ []((/\ \A t \in Callers : t # 1 => caller[t].calls = 0
           /\ Len(state.made) = Len(state.taken)) =>
              state.made = [i \in 1 .. Len(state.made) |-> u32(i - 1)])

\* Two threads were in new_scratch_dir at the same time and both returned Ok:
\* the thread that took the later number finished first.
C21_Witness ==
    \E t1, t2 \in Callers :
        /\ caller[t1].op = "new_scratch_dir" /\ caller[t1].ret.ok
        /\ caller[t2].op = "new_scratch_dir" /\ caller[t2].ret.ok
        /\ caller[t1].id = u32(0) /\ caller[t2].id = u32(1)
        /\ state.made = <<u32(1), u32(0)>>

\* C22 (fresh scratch directory): the directory of every handle new_scratch_dir
\* has returned was created by that same call; when the directory with the
\* number taken exists already, new_scratch_dir returns the AlreadyExists
\* error, opens nothing and leaves the directory and the counter as they are;
\* and the counter moves on by one with every number taken, so the number of a
\* failed call is not taken again before the counter has wrapped.
C22_ScratchFresh ==
    /\ [](\A t \in Callers :
            (caller[t].op = "new_scratch_dir" /\ caller[t].ret.ok) =>
                /\ caller[t].id \in DOMAIN fs.scratch
                /\ fs.scratch[caller[t].id] = CallOf(t))
    /\ [][\A t \in Callers :
            /\ (/\ ScratchMkdirat(t, FALSE)
                /\ caller[t].id \in DOMAIN fs.scratch) =>
                   /\ caller'[t].pc = "return"
                   /\ caller'[t].ret = Err("AlreadyExists")
                   /\ fs' = fs
            /\ (\E fault \in BOOLEAN : ScratchMkdirat(t, fault)) => state' = state
            /\ ScratchFetchAdd(t) =>
                   /\ caller'[t].id = state.next_scratch_dir
                   /\ state'.next_scratch_dir =
                          (IF state.next_scratch_dir = U32_MAX THEN u32(0)
                           ELSE wrapping_add(state.next_scratch_dir))
                   /\ state'.taken = Append(state.taken, state.next_scratch_dir)]_vars

\* The counter has wrapped: the call that took the last number made its
\* directory, the call that took 0 failed on scratches/0, which was there, and
\* the call after it took 1 and made scratches/1.
C22_Witness ==
    \E t1, t2 \in Callers :
        /\ state.taken = <<U32_MAX, u32(0), u32(1)>>
        /\ state.made = <<U32_MAX, u32(1)>>
        /\ caller[t1].op = "new_scratch_dir"
        /\ caller[t1].id = u32(0)
        /\ caller[t1].ret = Err("AlreadyExists")
        /\ caller[t2].op = "new_scratch_dir"
        /\ caller[t2].id = u32(1)
        /\ caller[t2].ret.ok
        /\ fs.scratch[u32(0)] = NoCall
        /\ fs.scratch[u32(1)] = CallOf(t2)

\* The threads that are inside the closure of ensure_open_dir_once for c.
Initializing(c) ==
    {t \in Callers : caller[t].component = c /\ caller[t].pc \in {"mkdirat", "openat"}}

\* C23 (component directories): State::open leaves the three cells empty; a
\* component directory is created if it is missing, accepted if it exists, and
\* opened, when a method first uses it; for each component at most one openat
\* ever succeeds, whatever threads race for it, the handle in the cell never
\* changes, and every use that succeeds gets that handle; an attempt that
\* fails returns its error and leaves the cell empty and the Once incomplete,
\* so that the next use runs the closure again.
C23_OpenOnce ==
    /\ [](\A c \in Components :
            /\ state.opened[c] <= 1
            /\ state.opened[c] = 0 <=> state.cell[c] = NoFd
            /\ state.cell[c] # NoFd =>
                   state.cell[c].path = <<c>> /\ c \in fs.components
            /\ Cardinality(Initializing(c)) <= 1
            /\ (state.cell[c] = NoFd /\ Initializing(c) = {}) =>
                   call_once_force(state.once[c]) = "run")
    /\ []((\A t \in Callers : caller[t].calls = 0) =>
            /\ state = State_open
            /\ fs.next_fd = 1)
    /\ [](\A t \in Callers :
            /\ caller[t].pc \in {"have_dir", "scratch_mkdirat", "scratch_openat"} =>
                   /\ caller[t].dir # NoFd
                   /\ caller[t].dir = state.cell[caller[t].component]
            /\ (caller[t].op \in {"cached_actions_dir", "cached_outputs_dir"}
                /\ caller[t].ret.ok) =>
                   caller[t].ret.fd = state.cell[caller[t].component])
    /\ [][\A c \in Components :
            state.cell[c] # NoFd => state'.cell[c] = state.cell[c]]_vars
    /\ [][\A t \in Callers :
            /\ CellMkdirat(t, FALSE) =>
                   /\ caller[t].component \in fs'.components
                   /\ caller'[t].pc = "openat"
            /\ (/\ caller[t].pc \in {"mkdirat", "openat"}
                /\ caller'[t].pc = "return") =>
                   /\ ~caller'[t].ret.ok
                   /\ caller'[t].ret.err # "none"
                   /\ state'.cell[caller[t].component] = NoFd
                   /\ state'.once[caller[t].component] = "incomplete"]_vars

\* A first use of the output cache has failed and not yet returned; the other
\* thread has then run the closure, which made the directory and opened it,
\* and has got the handle twice; the scratches directory is still unopened.
C23_Witness ==
    \E t1, t2 \in Callers :
        /\ caller[t1].op = "cached_outputs_dir"
        /\ caller[t1].pc = "return"
        /\ caller[t1].ret = Err("PermissionDenied")
        /\ caller[t2].op = "cached_outputs_dir"
        /\ caller[t2].calls = 2
        /\ caller[t2].ret.ok
        /\ caller[t2].ret.fd = state.cell[CACHED_OUTPUTS_DIR]
        /\ state.opened[CACHED_OUTPUTS_DIR] = 1
        /\ state.cell[SCRATCHES_DIR] = NoFd

\* The characters of the input from pos on.
Remaining(pos) == {k \in DOMAIN lexer.input : k >= pos}

\* C30 (lexer progress): a call of Lexer::next returns None exactly when the
\* rest of the input is whitespace only; a call that returns an item, Ok or
\* Err, has consumed at least one character that is not whitespace; so the
\* items are at most as many as the characters of the input, and once next has
\* returned None it returns None again; a call that returns
\* Err(UnterminatedStringLiteral) has consumed the whole input, so that it is
\* the last item and the next call returns None.
C30_LexerProgress ==
    /\ [][LexerNext =>
            LET none == lexer'.last = <<None>> IN
            /\ none <=> \A k \in Remaining(lexer.pos) : is_whitespace(lexer.input[k])
            /\ ~none =>
                   /\ lexer'.pos > lexer.pos
                   /\ \E k \in lexer.pos .. (lexer'.pos - 1) :
                          ~is_whitespace(lexer.input[k])
            /\ lexer.last = <<None>> => none
            /\ lexer.last = <<ErrItem("UnterminatedStringLiteral", <<>>)>> => none]_vars
    /\ [](Len(lexer.items) <= Len(lexer.input))
    /\ [](\A i \in DOMAIN lexer.items :
            lexer.items[i].kind = "UnterminatedStringLiteral" =>
                /\ i = Len(lexer.items)
                /\ lexer.pos = Len(lexer.input) + 1)

\* A string literal is closed and another is opened and not closed: next has returned Ok, then Err(UnterminatedStringLiteral), then None.
C30_Witness ==
    /\ Len(lexer.items) = 2
    /\ lexer.items[1].kind = "StringLiteral"
    /\ lexer.items[2].kind = "UnterminatedStringLiteral"
    /\ lexer.last = <<None>>
    /\ lexer.nones = 2

====
